---------------------------- MODULE Spec2Model ----------------------------
(***************************************************************************)
(* Model of the sw-chat API gateway: the /api/chat route (rate limiter,    *)
(* input validator, model-id mapping, POST handler) and the OpenRouter     *)
(* relay service (buffered and streaming completion).                      *)
(***************************************************************************)
EXTENDS Integers, Sequences, FiniteSets, Bags, TLC

VARIABLES
    now,             \* Date.now(), in milliseconds
    rateLimitStore,  \* the route's rateLimitStore map: key -> record
    history,         \* per key: the calls of checkRateLimit in the 60 s window that its first call opened
    apiKey,          \* process.env.OPENROUTER_API_KEY is set
    req,             \* per in-flight POST invocation: its position and locals
    lastResponse,    \* the response the gateway sent last
    payload,         \* validator run: the untrusted payload
    payloadIn,       \* validator run: the payload as it was before the call
    result,          \* validator run: what validateInput returned (or threw)
    reply,           \* validator run: what POST answers for that payload
    modelId,         \* mapper run: the id fed to the mapper
    mapped,          \* mapper run: the current value after the mappings applied
    mapOps,          \* mapper run: the mappings applied so far
    upstream,        \* stream run: the bytes the upstream body sends
    unread,          \* stream run: the bytes not yet returned by reader.read()
    pending,         \* stream run: the TextDecoder's incomplete byte sequence
    buffer,          \* stream run: the relay's line buffer
    lines,           \* stream run: the lines of the read in hand not yet looked at
    splitInLine,     \* stream run: some read so far ended inside a line, with more to come
    yielded,         \* stream run: the chunks the generator yielded so far
    spc,             \* stream run: the generator's position
    abortedAt,       \* stream run: the chunks yielded when the signal was triggered, -1 before
    readerLocked,    \* stream run: the reader holds the lock on the upstream body
    streamExit,      \* stream run: the way the read loop was left ("" while it runs)
    serviceVersion,  \* chat run: which of the two definitions of OpenRouterService is linked
    serviceKey,      \* chat run: the service holds an API key
    chatPc,          \* chat run: where handleSendMessage is waiting
    responseType,    \* chat run: 'text' or 'streaming', of the message being sent
    signalAborted,   \* chat run: controller.signal.aborted
    abortController, \* chat run: the abortController state is not null
    chatError,       \* chat run: the error state ("" is null)
    chatMessages,    \* chat run: the kinds of the messages in the list
    received,        \* chat run: the chunks the stream loop has taken
    raised,          \* chat run: the error the service raised to handleSendMessage
    safeAccess,      \* client run: the stream loop tests chunk.choices before reading it
    calls,           \* client run: the invocations of handleSendMessage, in order
    storedController, \* client run: whose controller the abortController state holds, 0 for null
    isLoading,       \* client run: the isLoading state
    isTyping,        \* client run: the isTyping state
    clientError,     \* client run: the error state ("" is null)
    clientMessages,  \* client run: the message list
    relayPc,         \* relay run: where the start() callback of the response stream is
    upstreamReads,   \* relay run: the reader.read() calls made on the upstream body
    queue,           \* relay run: the frames enqueued and not yet taken by the consumer
    pullPending,     \* relay run: the consumer has asked for a chunk and waits for it
    taken,           \* relay run: the frames the consumer has taken
    admittedAt,      \* limiter run: per key and time, the calls admitted at that time
    lastCall         \* limiter run: the key and the answer of the last checkRateLimit call

vars == <<now, rateLimitStore, history, apiKey, req, lastResponse,
          payload, payloadIn, result, reply, modelId, mapped, mapOps,
          upstream, unread, pending, buffer, lines, splitInLine, yielded, spc,
          abortedAt, readerLocked, streamExit,
          serviceVersion, serviceKey, chatPc, responseType, signalAborted,
          abortController, chatError, chatMessages, received, raised,
          safeAccess, calls, storedController, isLoading, isTyping, clientError,
          clientMessages,
          relayPc, upstreamReads, queue, pullPending, taken,
          admittedAt, lastCall>>

gatewayVars == <<now, rateLimitStore, history, apiKey, req, lastResponse>>
validateVars == <<payload, payloadIn, result, reply>>
mapVars == <<modelId, mapped, mapOps>>
streamVars == <<upstream, unread, pending, buffer, lines, splitInLine, yielded, spc,
                abortedAt, readerLocked, streamExit>>
chatVars == <<serviceVersion, serviceKey, chatPc, responseType, signalAborted,
              abortController, chatError, chatMessages, received, raised>>
clientVars == <<safeAccess, calls, storedController, isLoading, isTyping, clientError,
                clientMessages>>
relayVars == <<relayPc, upstreamReads, queue, pullPending, taken>>
limiterVars == <<admittedAt, lastCall>>

(***************************************************************************)
(* JavaScript values.  A number n/Scale is stored as the integer n, so     *)
(* that 0.01 and 1.5 are values of the model.  A string is its text and    *)
(* its length (a 10001-character content is named, not spelled out).       *)
(***************************************************************************)
Scale == 100

Undefined == [t |-> "undefined", n |-> 0, s |-> ""]
Null == [t |-> "null", n |-> 0, s |-> ""]
Bool(b) == [t |-> "bool", n |-> IF b THEN 1 ELSE 0, s |-> ""]
Num(h) == [t |-> "num", n |-> h, s |-> ""]
Str(text, len) == [t |-> "str", n |-> len, s |-> text]

\* strings made of whitespace only: trim() leaves nothing of them
WhitespaceOnly == {"", " ", "   "}

Truthy(v) ==
    CASE v.t \in {"undefined", "null"} -> FALSE
      [] v.t = "bool" -> v.n = 1
      [] v.t = "num" -> v.n # 0
      [] v.t = "str" -> v.n # 0
      [] OTHER -> TRUE

TypeOf(v) ==
    CASE v.t = "undefined" -> "undefined"
      [] v.t = "bool" -> "boolean"
      [] v.t = "num" -> "number"
      [] v.t = "str" -> "string"
      [] v.t = "function" -> "function"
      [] OTHER -> "object"

TrimLength(v) == IF v.s \in WhitespaceOnly THEN 0 ELSE v.n

\* a messages value: an array of items, or any other value
Arr(items) == [t |-> "arr", n |-> 0, s |-> "", items |-> items]
NotArr(v) == [t |-> v.t, n |-> v.n, s |-> v.s, items |-> <<>>]

\* an element of messages: an object with role and content, or any other value
Msg(role, content) == [t |-> "obj", n |-> 0, s |-> "", role |-> role, content |-> content]
NotMsg(v) == [t |-> v.t, n |-> v.n, s |-> v.s, role |-> Undefined, content |-> Undefined]

\* a request body: an object with the five fields, or any other value
Body(model, messages, temperature, max_tokens, stream) ==
    [t |-> "obj", n |-> 0, s |-> "", model |-> model, messages |-> messages,
     temperature |-> temperature, max_tokens |-> max_tokens, stream |-> stream]
NotBody(v) ==
    [t |-> v.t, n |-> v.n, s |-> v.s, model |-> Undefined, messages |-> NotArr(Undefined),
     temperature |-> Undefined, max_tokens |-> Undefined, stream |-> Undefined]

(***************************************************************************)
(* validateInput                                                           *)
(***************************************************************************)
Valid == [isValid |-> TRUE, error |-> "", threw |-> FALSE]
Invalid(reason) == [isValid |-> FALSE, error |-> reason, threw |-> FALSE]
Threw(message) == [isValid |-> FALSE, error |-> message, threw |-> TRUE]

AllowedRoles == {"user", "assistant", "system"}
MaxContentLength == 10000
MaxTokensLimit == 4000
MaxTemperature == 2

NotAnObject(data) == ~Truthy(data) \/ TypeOf(data) # "object"

ModelMissing(requestData) ==
    ~Truthy(requestData.model) \/ TypeOf(requestData.model) # "string"

MessagesMissing_NoEmptyCheck(requestData) ==
    ~Truthy(requestData.messages) \/ requestData.messages.t # "arr"

MessagesMissing(requestData) ==
    \/ ~Truthy(requestData.messages)
    \/ requestData.messages.t # "arr"
    \/ Len(requestData.messages.items) = 0

\* the body of the for loop, for one message; Valid stands for "go on"
CheckMessage(message) ==
    IF message.t \in {"null", "undefined"}
      THEN Threw("Cannot read properties of null (reading 'role')")
    ELSE IF ~Truthy(message.role) \/ ~Truthy(message.content)
      THEN Invalid("Each message must have role and content")
    ELSE IF ~(message.role.t = "str" /\ message.role.s \in AllowedRoles)
      THEN Invalid("Invalid message role")
    ELSE IF TypeOf(message.content) # "string" \/ TrimLength(message.content) = 0
      THEN Invalid("Message content must be a non-empty string")
    ELSE IF message.content.n > MaxContentLength
      THEN Invalid("Message content too long")
    ELSE Valid

RECURSIVE CheckMessages(_)
CheckMessages(items) ==
    IF items = <<>> THEN Valid
    ELSE LET r == CheckMessage(Head(items))
         IN  IF r # Valid THEN r ELSE CheckMessages(Tail(items))

TemperatureInvalid_Exclusive(requestData) ==
    /\ requestData.temperature.t # "undefined"
    /\ \/ TypeOf(requestData.temperature) # "number"
       \/ requestData.temperature.n <= 0
       \/ requestData.temperature.n >= MaxTemperature * Scale

TemperatureInvalid(requestData) ==
    /\ requestData.temperature.t # "undefined"
    /\ \/ TypeOf(requestData.temperature) # "number"
       \/ requestData.temperature.n < 0
       \/ requestData.temperature.n > MaxTemperature * Scale

MaxTokensInvalid(requestData) ==
    /\ requestData.max_tokens.t # "undefined"
    /\ \/ TypeOf(requestData.max_tokens) # "number"
       \/ requestData.max_tokens.n < 1 * Scale
       \/ requestData.max_tokens.n > MaxTokensLimit * Scale

validateInput(data) ==
    IF NotAnObject(data) THEN Invalid("Invalid request data")
    ELSE IF ModelMissing(data) THEN Invalid("Model is required")
    ELSE IF MessagesMissing(data)
      THEN Invalid("Messages array is required and cannot be empty")
    ELSE IF CheckMessages(data.messages.items) # Valid
      THEN CheckMessages(data.messages.items)
    ELSE IF TemperatureInvalid(data)
      THEN Invalid("Temperature must be between 0 and 2")
    ELSE IF MaxTokensInvalid(data)
      THEN Invalid("Max tokens must be between 1 and 4000")
    ELSE Valid


(***************************************************************************)
(* Model-id mapping.  An id is a JavaScript value: a string, or what a     *)
(* property lookup on a plain object can give back.                        *)
(***************************************************************************)
Id(text) == [t |-> "str", s |-> text]
UndefinedId == [t |-> "undefined", s |-> ""]

MODEL_MAP ==
    [k \in {"open-router/gemini-2.0-flash-001", "open-router/gemini-2.5-flash",
            "open-router/gpt-5", "open-router/gpt-oss-120b", "open-router/gpt-oss-20b",
            "open-router/llama-4-maverick", "open-router/llama-4-scout"} |->
       CASE k = "open-router/gemini-2.0-flash-001" -> "google/gemini-2.0-flash-001"
         [] k = "open-router/gemini-2.5-flash" -> "google/gemini-2.5-flash"
         [] k = "open-router/gpt-5" -> "openai/gpt-5"
         [] k = "open-router/gpt-oss-120b" -> "openai/gpt-oss-120b"
         [] k = "open-router/gpt-oss-20b" -> "openai/gpt-oss-20b"
         [] k = "open-router/llama-4-maverick" -> "meta-llama/llama-4-maverick"
         [] k = "open-router/llama-4-scout" -> "meta-llama/llama-4-scout"]

\* the route's own copy of the table
MODEL_MAPPING == MODEL_MAP

\* Object.fromEntries(Object.entries(MODEL_MAP).map(([k, v]) => [v, k]))
REV_MAP ==
    [v \in {MODEL_MAP[k] : k \in DOMAIN MODEL_MAP} |->
       CHOOSE k \in DOMAIN MODEL_MAP : MODEL_MAP[k] = v]

\* the properties every plain object inherits from Object.prototype
ObjectPrototypeKeys ==
    {"constructor", "toString", "toLocaleString", "valueOf", "hasOwnProperty",
     "isPrototypeOf", "propertyIsEnumerable", "__proto__"}

\* table[id] on a plain object: an own entry, an inherited property, or undefined
Lookup(table, id) ==
    IF id.t = "str" /\ id.s \in DOMAIN table THEN Id(table[id.s])
    ELSE IF id.t = "str" /\ id.s \in ObjectPrototypeKeys
      THEN [t |-> IF id.s = "__proto__" THEN "object" ELSE "function", s |-> id.s]
    ELSE UndefinedId

IdTruthy(v) == v.t \in {"function", "object"} \/ (v.t = "str" /\ v.s # "")

mapToExternalModelId_BackAndForth(id) ==
    IF IdTruthy(Lookup(MODEL_MAP, id)) THEN Lookup(MODEL_MAP, id)
    ELSE IF IdTruthy(Lookup(REV_MAP, id)) THEN Lookup(REV_MAP, id)
    ELSE id

mapToExternalModelId(id) ==
    IF IdTruthy(Lookup(MODEL_MAP, id)) THEN Lookup(MODEL_MAP, id) ELSE id

mapToInternalModelId(id) ==
    IF IdTruthy(Lookup(REV_MAP, id)) THEN Lookup(REV_MAP, id) ELSE id

(***************************************************************************)
(* Rate limiter                                                            *)
(***************************************************************************)
RATE_LIMIT_WINDOW == 60 * 1000
RATE_LIMIT_MAX_REQUESTS == 60

NoHeader == <<>>
NoRecord == [count |-> 0, resetTime |-> -1]

getRateLimitKey(ip) == <<"rate_limit_", ip>>

\* a header is the list of its comma-separated entries, already trimmed;
\* an absent header and an empty one are both falsy
getClientIP(headers) ==
    IF headers.forwarded # NoHeader THEN headers.forwarded[1]
    ELSE IF headers.realIP # NoHeader THEN headers.realIP[1]
    ELSE "unknown"

checkRateLimitAllowed_ResetAtDeadline(store, ip, t) ==
    LET record == store[getRateLimitKey(ip)]
    IN  IF record = NoRecord \/ t >= record.resetTime THEN TRUE
        ELSE IF record.count >= RATE_LIMIT_MAX_REQUESTS THEN FALSE
        ELSE TRUE

checkRateLimitAllowed_OffByOne(store, ip, t) ==
    LET record == store[getRateLimitKey(ip)]
    IN  IF record = NoRecord \/ t > record.resetTime THEN TRUE
        ELSE IF record.count > RATE_LIMIT_MAX_REQUESTS THEN FALSE
        ELSE TRUE

\* the value checkRateLimit returns for the store and the clock given
checkRateLimitAllowed(store, ip, t) ==
    LET record == store[getRateLimitKey(ip)]
    IN  IF record = NoRecord \/ t > record.resetTime THEN TRUE
        ELSE IF record.count >= RATE_LIMIT_MAX_REQUESTS THEN FALSE
        ELSE TRUE

checkRateLimitStore_ResetsAll(store, ip, t) ==
    LET key == getRateLimitKey(ip)
        record == store[key]
    IN  IF record = NoRecord \/ t > record.resetTime
          THEN [k \in DOMAIN store |->
                  IF k = key THEN [count |-> 1, resetTime |-> t + RATE_LIMIT_WINDOW]
                  ELSE NoRecord]
        ELSE IF record.count >= RATE_LIMIT_MAX_REQUESTS THEN store
        ELSE [store EXCEPT ![key].count = record.count + 1]

checkRateLimitStore_CountsRejected(store, ip, t) ==
    LET key == getRateLimitKey(ip)
        record == store[key]
    IN  IF record = NoRecord \/ t > record.resetTime
          THEN [store EXCEPT ![key] = [count |-> 1, resetTime |-> t + RATE_LIMIT_WINDOW]]
        ELSE [store EXCEPT ![key].count = record.count + 1]

checkRateLimitStore_NoIncrement(store, ip, t) ==
    LET key == getRateLimitKey(ip)
        record == store[key]
    IN  IF record = NoRecord \/ t > record.resetTime
          THEN [store EXCEPT ![key] = [count |-> 1, resetTime |-> t + RATE_LIMIT_WINDOW]]
        ELSE store

\* the store checkRateLimit leaves
checkRateLimitStore(store, ip, t) ==
    LET key == getRateLimitKey(ip)
        record == store[key]
    IN  IF record = NoRecord \/ t > record.resetTime
          THEN [store EXCEPT ![key] = [count |-> 1, resetTime |-> t + RATE_LIMIT_WINDOW]]
        ELSE IF record.count >= RATE_LIMIT_MAX_REQUESTS THEN store
        ELSE [store EXCEPT ![key].count = record.count + 1]

\* POST, lines 125-131 and the catch of lines 192-206: what the gateway answers
\* at the validation step; status 0 stands for "no answer yet, go on"
NoReply == [status |-> 0, error |-> ""]
Reply(status, error) == [status |-> status, error |-> error]

ValidationReply(body) ==
    LET validation == validateInput(body)
    IN  IF validation.threw THEN Reply(500, validation.error)
        ELSE IF ~validation.isValid THEN Reply(400, validation.error)
        ELSE NoReply

(***************************************************************************)
(* The validator on its own: a payload is drawn, validateInput is applied. *)
(***************************************************************************)
NotRun == [isValid |-> FALSE, error |-> "", threw |-> FALSE]

MaxMessages == 2

UserHi == Msg(Str("user", 4), Str("hi", 2))

MessageValues ==
    { UserHi,
      NotMsg(Null),
      NotMsg(Num(5 * Scale)),
      Msg(Undefined, Str("hi", 2)),
      Msg(Str("bogus", 5), Str("hi", 2)),
      Msg(Str("bogus", 5), Str("", 0)),
      Msg(Str("system", 6), Str("   ", 3)),
      Msg(Str("assistant", 9), Num(5 * Scale)),
      Msg(Str("user", 4), Str("x..x", MaxContentLength)),
      Msg(Str("user", 4), Str("x..x", MaxContentLength + 1)) }

MessagesValues ==
    { NotArr(Undefined), NotArr(Str("abc", 3)), Arr(<<>>) }
    \cup { Arr(<<m>>) : m \in MessageValues }
    \cup { Arr(<<UserHi, m>>) : m \in IF MaxMessages >= 2 THEN MessageValues ELSE {} }
    \cup { Arr(<<UserHi, UserHi, m>>) : m \in IF MaxMessages >= 3 THEN {UserHi, NotMsg(Null)} ELSE {} }

ModelValues == { Undefined, Str("", 0), Num(1 * Scale), Str("m", 1) }

TemperatureValues ==
    { Undefined, Null, Str("1", 1), Num(-1), Num(0), Num(70), Num(2 * Scale), Num(2 * Scale + 1) }

MaxTokensValues ==
    { Undefined, Null, Num(0), Num(1 * Scale), Num(150),
      Num(MaxTokensLimit * Scale), Num(MaxTokensLimit * Scale + 1) }

Payloads ==
    { NotBody(Null), NotBody(Num(1 * Scale)), NotBody(Str("abc", 3)),
      NotBody([t |-> "arr", n |-> 0, s |-> ""]) }
    \cup { Body(mo, ms, te, mt, Bool(FALSE)) :
             mo \in ModelValues, ms \in MessagesValues,
             te \in TemperatureValues, mt \in MaxTokensValues }

ValidateIdle ==
    /\ payload = NotBody(Undefined) /\ payloadIn = NotBody(Undefined)
    /\ result = NotRun /\ reply = NoReply

\* const validation = validateInput(body), and the answer POST gives for it
Validate ==
    /\ result = NotRun
    /\ payload \in Payloads
    /\ result' = validateInput(payload)
    /\ reply' = ValidationReply(payload)
    /\ UNCHANGED <<payload, payloadIn>>


(***************************************************************************)
(* The gateway: POST and GET of the /api/chat route.  A POST invocation    *)
(* runs up to its next await in one step; invocations in flight are kept   *)
(* in the bag req.                                                         *)
(***************************************************************************)
MaxInFlight == 2
MaxWindows == 1
MaxCalls == 62
MaxFrames == 2

\* the instants at which something happens: the start of a window, its last
\* millisecond (the deadline itself) and the first millisecond after it
Times ==
    {0} \cup { k * RATE_LIMIT_WINDOW : k \in 1..MaxWindows }
        \cup { k * RATE_LIMIT_WINDOW + 1 : k \in 1..MaxWindows }

ClientHeaders == { [forwarded |-> NoHeader, realIP |-> NoHeader] }

Keys == { getRateLimitKey(getClientIP(h)) : h \in ClientHeaders }

NoHistory == [start |-> -1, n |-> 0, allowed |-> FALSE, admitted |-> 0]

\* the calls seen from outside: a call more than 60 s after the one that
\* opened the window (or the first ever) opens a window and is call number 1;
\* admitted counts the calls of the window that checkRateLimit let through
Observe(h, t, allowed) ==
    IF h = NoHistory \/ t > h.start + RATE_LIMIT_WINDOW
      THEN [start |-> t, n |-> 1, allowed |-> allowed,
            admitted |-> IF allowed THEN 1 ELSE 0]
      ELSE [start |-> h.start, n |-> h.n + 1, allowed |-> allowed,
            admitted |-> h.admitted + (IF allowed THEN 1 ELSE 0)]

NoRequest ==
    [model |-> UndefinedId, stream |-> Undefined, temperature |-> Undefined,
     max_tokens |-> Undefined]

Range(f) == { f[i] : i \in DOMAIN f }

Or(a, b) == IF Truthy(a) THEN a ELSE b

\* POST, lines 145-154
PrepareRequest(body) ==
    [model |-> mapToExternalModelId(Id(body.model.s)),
     stream |-> Or(body.stream, Bool(FALSE)),
     temperature |-> Or(body.temperature, Num(70)),
     max_tokens |-> Or(body.max_tokens, Num(4000 * Scale))]

\* steps: the steps of POST the invocation has executed, in order; body: the
\* parsed request body, once request.json() has given it
Invocation(pc, request, steps, upstreamCalls, frames) ==
    [pc |-> pc, request |-> request, steps |-> steps,
     upstreamCalls |-> upstreamCalls, frames |-> frames, body |-> NotBody(Undefined)]

\* a completion: its id (prefix, rest) and choices[0].message.content (the
\* pieces of the template literal)
NoCompletion == [id |-> <<>>, content |-> <<>>]

MockPrefix == "mock-"
DemoMarker == "Mock response from "

\* createCompletion, lines 119-130
MockCompletion(model) ==
    [id |-> <<MockPrefix, "Date.now()">>,
     content |-> <<DemoMarker, model.s,
                   ": This is a demo response. Please set your OpenRouter API key to use real AI models.">>]

\* what the upstream answers with status 200
UpstreamCompletion == [id |-> <<"gen-", "1">>, content |-> <<"Hello">>]

\* cause: what made the request fail ("none": nothing did); mode: "buffered"
\* or "streaming" once the body is known; completion: the JSON payload of a
\* buffered 200
Response(status, error, cause, steps, upstreamCalls, frames) ==
    [status |-> status, error |-> error, cause |-> cause, steps |-> steps,
     upstreamCalls |-> upstreamCalls, frames |-> frames,
     mode |-> "none", completion |-> NoCompletion]

\* body.stream, lines 151 and 157
Mode(body) == IF Truthy(body.stream) THEN "streaming" ELSE "buffered"

NoResponse == Response(0, "", "", <<>>, 0, <<>>)

DataFrame(chunk) == <<"data: ", chunk>>
DoneFrame == <<"data: ", "[DONE]">>
ErrorFrame == <<"data: ", "{\"error\":\"Streaming failed\"}">>

Malformed == NotBody(Str("{not json", 9))

GatewayBodies ==
    { Malformed,
      NotBody(Null),
      Body(Str("m", 1), Arr(<<>>), Undefined, Undefined, Bool(FALSE)),
      Body(Str("m", 1), Arr(<<NotMsg(Null)>>), Undefined, Undefined, Bool(TRUE)),
      Body(Str("open-router/gpt-5", 17), Arr(<<UserHi>>), Num(0), Num(10 * Scale), Undefined),
      Body(Str("m", 1), Arr(<<UserHi>>), Undefined, Undefined, Bool(TRUE)) }

\* what the upstream does with one HTTP call
FetchOutcomes == {"ok", "network", "err_message", "err_no_message", "err_not_json"}

\* createCompletion, lines 133-152: the message of the error it throws
CompletionError(outcome) ==
    CASE outcome = "network" -> "fetch failed"
      [] outcome = "err_message" -> "Provider returned error"
      [] outcome = "err_no_message" -> "API request failed: 502"
      [] outcome = "err_not_json" -> "Unexpected token < in JSON at position 0"
      [] OTHER -> ""

\* the fetches one relay call issues, lines 117-139 and 157-190: none
\* without a key, one with a key, whatever its outcome
Fetches_Retry(hasKey) == IF hasKey THEN 2 ELSE 0

Fetches(hasKey) == IF hasKey THEN 1 ELSE 0

createCompletion_MockWithKey(hasKey, model, outcome) ==
    [ok |-> TRUE, error |-> "", completion |-> MockCompletion(model)]

\* createCompletion, lines 116-152, for the key the service holds and for
\* what the upstream does
createCompletion(hasKey, model, outcome) ==
    IF ~hasKey THEN [ok |-> TRUE, error |-> "", completion |-> MockCompletion(model)]
    ELSE IF outcome = "ok" THEN [ok |-> TRUE, error |-> "", completion |-> UpstreamCompletion]
    ELSE [ok |-> FALSE, error |-> CompletionError(outcome), completion |-> NoCompletion]

\* POST, line 134: if (!apiKey)
KeyMissing_Never(hasKey) == FALSE

KeyMissing(hasKey) == ~hasKey

\* GET, lines 209-214
MethodNotAllowed_NoStatus ==
    Response(200, "Method not allowed", "method", <<>>, 0, <<>>)

MethodNotAllowed ==
    Response(405, "Method not allowed", "method", <<>>, 0, <<>>)

\* the steps POST executes on the body, lines 122-190, up to its return or
\* to the await of the relay
BodySteps_ConstructFirst(body, hasKey) ==
    IF body = Malformed THEN <<"parse">>
    ELSE IF ~hasKey THEN <<"parse", "key">>
    ELSE IF ValidationReply(body) # NoReply THEN <<"parse", "key", "construct", "validate">>
    ELSE <<"parse", "key", "construct", "validate", "map", "relay">>

BodySteps(body, hasKey) ==
    IF body = Malformed THEN <<"parse">>
    ELSE IF ValidationReply(body) # NoReply THEN <<"parse", "validate">>
    ELSE IF KeyMissing(hasKey) THEN <<"parse", "validate", "key">>
    ELSE <<"parse", "validate", "key", "construct", "map", "relay">>

Replace(bag, old, new) == (bag (-) SetToBag({old})) (+) SetToBag({new})
Remove(bag, old) == bag (-) SetToBag({old})

GatewayInit ==
    /\ now = 0
    /\ rateLimitStore = [k \in Keys |-> NoRecord]
    /\ history = [k \in Keys |-> NoHistory]
    /\ apiKey \in BOOLEAN
    /\ req = EmptyBag
    /\ lastResponse = NoResponse

\* time passes
Tick ==
    /\ \E t \in Times : t > now /\ now' = t
    /\ UNCHANGED <<rateLimitStore, history, apiKey, req, lastResponse>>

\* POST, lines 111-122: a request arrives; the rate check; request.json() is awaited
PostStart ==
    \E headers \in ClientHeaders :
      LET clientIP == getClientIP(headers)
          key == getRateLimitKey(clientIP)
          allowed == checkRateLimitAllowed(rateLimitStore, clientIP, now)
      IN  /\ BagCardinality(req) < MaxInFlight
          /\ Observe(history[key], now, allowed).n <= MaxCalls
          /\ rateLimitStore' = checkRateLimitStore(rateLimitStore, clientIP, now)
          /\ history' = [history EXCEPT ![key] = Observe(@, now, allowed)]
          /\ IF allowed
               THEN /\ req' = req (+) SetToBag({Invocation("json", NoRequest, <<"rate">>, 0, <<>>)})
                    /\ UNCHANGED lastResponse
               ELSE /\ lastResponse' = Response(429, "Rate limit exceeded. Please try again later.",
                                                "rate_limit", <<"rate">>, 0, <<>>)
                    /\ UNCHANGED req
          /\ UNCHANGED <<now, apiKey>>

\* POST, lines 122-190: the body arrives; validation, the key check, the
\* request is prepared and the relay is started (its fetch is issued)
PostBody ==
    \E r \in BagToSet(req), body \in GatewayBodies :
      /\ r.pc = "json"
      /\ IF body = Malformed
           THEN /\ lastResponse' = Response(500, "Unexpected token n in JSON at position 1",
                                            "malformed_body", r.steps \o BodySteps(body, apiKey), 0, <<>>)
                /\ req' = Remove(req, r)
         ELSE IF ValidationReply(body) # NoReply
           THEN /\ lastResponse' =
                     [Response(ValidationReply(body).status, ValidationReply(body).error,
                               IF validateInput(body).threw THEN "validator_threw" ELSE "invalid",
                               r.steps \o BodySteps(body, apiKey), 0, <<>>)
                        EXCEPT !.mode = Mode(body)]
                /\ req' = Remove(req, r)
         ELSE IF KeyMissing(apiKey)
           THEN /\ lastResponse' =
                     [Response(500, "OpenRouter API key not configured",
                               "no_key", r.steps \o BodySteps(body, apiKey), 0, <<>>)
                        EXCEPT !.mode = Mode(body)]
                /\ req' = Remove(req, r)
         ELSE /\ req' = Replace(req, r,
                          [Invocation(IF Truthy(body.stream) THEN "stream_fetch" ELSE "fetch",
                                      PrepareRequest(body),
                                      r.steps \o BodySteps(body, apiKey),
                                      Fetches(apiKey),
                                      <<>>)
                             EXCEPT !.body = body])
              /\ UNCHANGED lastResponse
      /\ UNCHANGED <<now, rateLimitStore, history, apiKey>>

\* POST, lines 188-206 with createCompletion, lines 133-152: the upstream answers
\* the buffered call
FetchDone ==
    \E r \in BagToSet(req), outcome \in FetchOutcomes :
      /\ r.pc = "fetch"
      /\ lastResponse' =
           LET done == createCompletion(apiKey, r.request.model, outcome)
           IN  IF done.ok
                 THEN [Response(200, "", "none", r.steps, r.upstreamCalls, <<>>)
                         EXCEPT !.mode = "buffered", !.completion = done.completion]
                 ELSE [Response(500, done.error, outcome, r.steps, r.upstreamCalls, <<>>)
                         EXCEPT !.mode = "buffered"]
      /\ req' = Remove(req, r)
      /\ UNCHANGED <<now, rateLimitStore, history, apiKey>>

\* POST, lines 162-176 with createStreamingCompletion, lines 184-198: the
\* upstream answers the streaming call; the 200 response is already out
StreamFetchDone ==
    \E r \in BagToSet(req), outcome \in FetchOutcomes :
      /\ r.pc = "stream_fetch"
      /\ IF outcome = "ok"
           THEN /\ req' = Replace(req, r, [r EXCEPT !.pc = "stream_read"])
                /\ UNCHANGED lastResponse
           ELSE /\ lastResponse' = [Response(200, "", outcome, r.steps,
                                             r.upstreamCalls, <<ErrorFrame>>)
                                      EXCEPT !.mode = "streaming"]
                /\ req' = Remove(req, r)
      /\ UNCHANGED <<now, rateLimitStore, history, apiKey>>

\* POST, lines 164-167: the relay yields a chunk, a frame is enqueued
StreamYield ==
    \E r \in BagToSet(req) :
      /\ r.pc = "stream_read"
      /\ Len(r.frames) < MaxFrames
      /\ req' = Replace(req, r, [r EXCEPT !.frames = Append(@, DataFrame(Len(@) + 1))])
      /\ UNCHANGED <<now, rateLimitStore, history, apiKey, lastResponse>>

\* POST, lines 168-169: the relay returns; the terminal frame, close
StreamReturn ==
    \E r \in BagToSet(req) :
      /\ r.pc = "stream_read"
      /\ lastResponse' = [Response(200, "", "none", r.steps, r.upstreamCalls,
                                   Append(r.frames, DoneFrame))
                            EXCEPT !.mode = "streaming"]
      /\ req' = Remove(req, r)
      /\ UNCHANGED <<now, rateLimitStore, history, apiKey>>

\* POST, lines 170-175: the relay throws (the upstream connection broke);
\* the error frame, close
StreamThrow ==
    \E r \in BagToSet(req) :
      /\ r.pc = "stream_read"
      /\ lastResponse' = [Response(200, "", "network", r.steps, r.upstreamCalls,
                                   Append(r.frames, ErrorFrame))
                            EXCEPT !.mode = "streaming"]
      /\ req' = Remove(req, r)
      /\ UNCHANGED <<now, rateLimitStore, history, apiKey>>

\* GET, lines 209-214
Get ==
    /\ lastResponse' = MethodNotAllowed
    /\ UNCHANGED <<now, rateLimitStore, history, apiKey, req>>

MapIdle == modelId = UndefinedId /\ mapped = UndefinedId /\ mapOps = <<>>

NotAborted == -1

\* no error raised: message "", byAbort tells a raised error from a
\* cancellation apart
NoError == [message |-> "", byAbort |-> FALSE]

RelayIdle ==
    /\ relayPc = "idle" /\ upstreamReads = 0 /\ queue = <<>>
    /\ pullPending = FALSE /\ taken = 0

NoCall == [key |-> <<>>, allowed |-> FALSE, forwarded |-> NoHeader, realIP |-> NoHeader]

LimiterIdle == admittedAt = <<>> /\ lastCall = NoCall

ClientIdle ==
    /\ safeAccess = TRUE /\ calls = <<>> /\ storedController = 0
    /\ isLoading = FALSE /\ isTyping = FALSE
    /\ clientError = "" /\ clientMessages = <<>>

ChatIdle ==
    /\ serviceVersion = 1 /\ serviceKey = TRUE /\ chatPc = "idle"
    /\ responseType = "text" /\ signalAborted = FALSE /\ abortController = FALSE
    /\ chatError = "" /\ chatMessages = <<>> /\ received = 0 /\ raised = NoError

StreamIdle ==
    /\ upstream = <<>> /\ unread = <<>> /\ pending = <<>> /\ buffer = <<>>
    /\ lines = <<>> /\ splitInLine = FALSE
    /\ yielded = <<>> /\ spc = "idle" /\ abortedAt = NotAborted
    /\ readerLocked = FALSE /\ streamExit = ""

Init ==
    /\ GatewayInit /\ ValidateIdle /\ MapIdle /\ StreamIdle /\ ChatIdle /\ ClientIdle
    /\ RelayIdle /\ LimiterIdle

Next ==
    \/ Tick /\ UNCHANGED <<validateVars, mapVars, streamVars, chatVars, clientVars, relayVars, limiterVars>>
    \/ PostStart /\ UNCHANGED <<validateVars, mapVars, streamVars, chatVars, clientVars, relayVars, limiterVars>>
    \/ PostBody /\ UNCHANGED <<validateVars, mapVars, streamVars, chatVars, clientVars, relayVars, limiterVars>>
    \/ FetchDone /\ UNCHANGED <<validateVars, mapVars, streamVars, chatVars, clientVars, relayVars, limiterVars>>
    \/ StreamFetchDone /\ UNCHANGED <<validateVars, mapVars, streamVars, chatVars, clientVars, relayVars, limiterVars>>
    \/ StreamYield /\ UNCHANGED <<validateVars, mapVars, streamVars, chatVars, clientVars, relayVars, limiterVars>>
    \/ StreamReturn /\ UNCHANGED <<validateVars, mapVars, streamVars, chatVars, clientVars, relayVars, limiterVars>>
    \/ StreamThrow /\ UNCHANGED <<validateVars, mapVars, streamVars, chatVars, clientVars, relayVars, limiterVars>>
    \/ Get /\ UNCHANGED <<validateVars, mapVars, streamVars, chatVars, clientVars, relayVars, limiterVars>>

Spec == Init /\ [][Next]_vars

GatewayIdle ==
    /\ now = 0 /\ rateLimitStore = [k \in Keys |-> NoRecord]
    /\ history = [k \in Keys |-> NoHistory] /\ apiKey = TRUE
    /\ req = EmptyBag /\ lastResponse = NoResponse

(***************************************************************************)
(* The validator on its own                                                *)
(***************************************************************************)
ValidateInit ==
    /\ payload \in Payloads /\ payloadIn = payload
    /\ result = NotRun /\ reply = NoReply
    /\ GatewayIdle /\ MapIdle /\ StreamIdle /\ ChatIdle /\ ClientIdle /\ RelayIdle /\ LimiterIdle

ValidateNext == Validate /\ UNCHANGED <<gatewayVars, mapVars, streamVars, chatVars, clientVars, relayVars, limiterVars>>

SpecValidate == ValidateInit /\ [][ValidateNext]_vars


(***************************************************************************)
(* The mapper on its own: an id is drawn, the two mappings are applied.    *)
(***************************************************************************)
MaxMapOps == 2

ModelIds ==
    { Id(k) : k \in DOMAIN MODEL_MAP } \cup { Id(v) : v \in DOMAIN REV_MAP }
      \cup { Id(k) : k \in ObjectPrototypeKeys }
      \cup { Id(""), Id("m"), Id("anthropic/claude-3.5-sonnet"), Id("open-router/unknown") }

MapInit ==
    /\ modelId \in ModelIds /\ mapped = modelId /\ mapOps = <<>>
    /\ GatewayIdle /\ ValidateIdle /\ StreamIdle /\ ChatIdle /\ ClientIdle /\ RelayIdle /\ LimiterIdle

MapExternal ==
    /\ Len(mapOps) < MaxMapOps
    /\ mapped' = mapToExternalModelId(mapped)
    /\ mapOps' = Append(mapOps, "external")
    /\ UNCHANGED modelId

MapInternal ==
    /\ Len(mapOps) < MaxMapOps
    /\ mapped' = mapToInternalModelId(mapped)
    /\ mapOps' = Append(mapOps, "internal")
    /\ UNCHANGED modelId

MapNext ==
    \/ MapExternal /\ UNCHANGED <<gatewayVars, validateVars, streamVars, chatVars, clientVars, relayVars, limiterVars>>
    \/ MapInternal /\ UNCHANGED <<gatewayVars, validateVars, streamVars, chatVars, clientVars, relayVars, limiterVars>>

SpecMap == MapInit /\ [][MapNext]_vars

(***************************************************************************)
(* The streaming relay on its own: createStreamingCompletion reading an    *)
(* upstream body.  Text is a sequence of characters, the body a sequence   *)
(* of bytes; "L" "K" are the two bytes of one two-byte character.          *)
(***************************************************************************)
MaxSegments == 3

DataPrefix == <<"d", "a", "t", "a", ":", " ">>
DoneMarker == <<"[", "D", "O", "N", "E", "]">>
Replacement == "U+FFFD"
TwoByteChar == "U+00E9"
Whitespace == {" ", "\r", "\t"}

\* what the upstream sends is made of these pieces: data lines (a number, a
\* malformed payload, a string ended by CR LF), the terminal marker, a data
\* line without its newline, and the blank line between events
Segments ==
    { DataPrefix \o <<"1", "\n">>,
      DataPrefix \o <<"{", "\n">>,
      DataPrefix \o <<"\"", "L", "K", "\"", "\r", "\n">>,
      DataPrefix \o DoneMarker \o <<"\n">>,
      DataPrefix \o <<"1">>,
      <<"\n">> }

RECURSIVE Flatten(_)
Flatten(ss) == IF ss = <<>> THEN <<>> ELSE Head(ss) \o Flatten(Tail(ss))

Streams ==
    { Flatten(ss) : ss \in UNION { [1..n -> Segments] : n \in 0..MaxSegments } }

\* decoder.decode(value, {stream: true}): the text of the bytes, an incomplete
\* sequence at the end is kept for the next call
Decode(held, bytes) ==
    LET heldBefore(i) == IF i = 1 THEN held # <<>> ELSE bytes[i - 1] = "L"
        out(i) ==
            IF bytes[i] = "L" THEN (IF heldBefore(i) THEN <<Replacement>> ELSE <<>>)
            ELSE IF bytes[i] = "K"
              THEN <<IF heldBefore(i) THEN TwoByteChar ELSE Replacement>>
            ELSE (IF heldBefore(i) THEN <<Replacement>> ELSE <<>>) \o <<bytes[i]>>
    IN  [text |-> Flatten([i \in 1..Len(bytes) |-> out(i)]),
         held |-> IF bytes = <<>> THEN held
                  ELSE IF bytes[Len(bytes)] = "L" THEN <<"L">> ELSE <<>>]

\* text.split('\n')
Split(text) ==
    LET newlines == { i \in 1..Len(text) : text[i] = "\n" }
        nth(j) == IF j = 0 THEN 0
                  ELSE IF j > Cardinality(newlines) THEN Len(text) + 1
                  ELSE CHOOSE i \in newlines : Cardinality({ h \in newlines : h < i }) = j - 1
    IN  [j \in 1..(Cardinality(newlines) + 1) |-> SubSeq(text, nth(j - 1) + 1, nth(j) - 1)]

Front(q) == SubSeq(q, 1, Len(q) - 1)
Last(q) == q[Len(q)]

\* buffer = lines.pop() || ''
Remainder_Dropped(parts) == <<>>

Remainder(parts) == Last(parts)

RECURSIVE TrimStart(_)
TrimStart(text) ==
    IF text # <<>> /\ Head(text) \in Whitespace THEN TrimStart(Tail(text)) ELSE text

RECURSIVE TrimEnd(_)
TrimEnd(text) ==
    IF text # <<>> /\ Last(text) \in Whitespace THEN TrimEnd(Front(text)) ELSE text

Trim(text) == TrimEnd(TrimStart(text))

StartsWith(text, prefix) ==
    Len(text) >= Len(prefix) /\ SubSeq(text, 1, Len(prefix)) = prefix

Slice(text, from) == SubSeq(text, from + 1, Len(text))

\* JSON.parse on the texts this alphabet can spell: a number, or a string
IsJSONNumber(text) == text # <<>> /\ \A i \in 1..Len(text) : text[i] = "1"

IsJSONString(text) ==
    /\ Len(text) >= 2 /\ Head(text) = "\"" /\ Last(text) = "\""
    /\ \A i \in 2..(Len(text) - 1) : text[i] \notin {"\"", "\r", "\t", "\n"}

JSONParses(text) == IsJSONNumber(Trim(text)) \/ IsJSONString(Trim(text))

JSONParse(text) ==
    IF IsJSONNumber(Trim(text)) THEN [t |-> "num", v |-> Trim(text)]
    ELSE [t |-> "str", v |-> SubSeq(Trim(text), 2, Len(Trim(text)) - 1)]

NoChunk == [t |-> "none", v |-> <<>>]

\* the for loop over lines, lines 217-230, run up to its next yield, to its
\* return, or to its end (the next read)
RECURSIVE RunLines(_)
RunLines_MarkerSkipped(ls) ==
    IF ls = <<>> THEN [to |-> "read", chunk |-> NoChunk, rest |-> <<>>]
    ELSE LET trimmedLine == Trim(Head(ls))
         IN  IF ~StartsWith(trimmedLine, DataPrefix) THEN RunLines(Tail(ls))
             ELSE LET data == Slice(trimmedLine, 6)
                  IN  IF data = DoneMarker THEN RunLines(Tail(ls))
                      ELSE IF JSONParses(data)
                        THEN [to |-> "yielded", chunk |-> JSONParse(data), rest |-> Tail(ls)]
                      ELSE RunLines(Tail(ls))

RunLines_StopAtMalformed(ls) ==
    IF ls = <<>> THEN [to |-> "read", chunk |-> NoChunk, rest |-> <<>>]
    ELSE LET trimmedLine == Trim(Head(ls))
         IN  IF ~StartsWith(trimmedLine, DataPrefix) THEN RunLines(Tail(ls))
             ELSE LET data == Slice(trimmedLine, 6)
                  IN  IF data = DoneMarker
                        THEN [to |-> "done", chunk |-> NoChunk, rest |-> <<>>]
                      ELSE IF JSONParses(data)
                        THEN [to |-> "yielded", chunk |-> JSONParse(data), rest |-> Tail(ls)]
                      ELSE [to |-> "done", chunk |-> NoChunk, rest |-> <<>>]

RunLines(ls) ==
    IF ls = <<>> THEN [to |-> "read", chunk |-> NoChunk, rest |-> <<>>]
    ELSE LET trimmedLine == Trim(Head(ls))
         IN  IF ~StartsWith(trimmedLine, DataPrefix) THEN RunLines(Tail(ls))
             ELSE LET data == Slice(trimmedLine, 6)
                  IN  IF data = DoneMarker
                        THEN [to |-> "done", chunk |-> NoChunk, rest |-> <<>>]
                      ELSE IF JSONParses(data)
                        THEN [to |-> "yielded", chunk |-> JSONParse(data), rest |-> Tail(ls)]
                      ELSE RunLines(Tail(ls))

StreamInit ==
    /\ upstream \in Streams /\ unread = upstream
    /\ pending = <<>> /\ buffer = <<>> /\ lines = <<>> /\ yielded = <<>>
    /\ splitInLine = FALSE
    /\ spc = "read"
    /\ abortedAt = NotAborted
    /\ readerLocked = TRUE /\ streamExit = ""
    /\ GatewayIdle /\ ValidateIdle /\ MapIdle /\ ChatIdle /\ ClientIdle /\ RelayIdle /\ LimiterIdle

\* abortController?.signal.aborted
Aborted == abortedAt # NotAborted

\* lines 232-234: the read loop is left, on whatever path, through its
\* finally block
Exit(path) == streamExit' = path /\ readerLocked' = FALSE

\* the generator goes on through the lines in hand; at the end of the lines
\* it is back at the head of the while loop, lines 204-208, where the
\* signal is looked at before the next read
Continue(ls) ==
    LET run == RunLines(ls)
    IN  /\ spc' = IF run.to = "read" /\ Aborted THEN "cancelled" ELSE run.to
        /\ lines' = run.rest
        /\ yielded' = IF run.to = "yielded" THEN Append(yielded, run.chunk) ELSE yielded
        /\ IF run.to = "done" THEN Exit("marker")
           ELSE IF run.to = "read" /\ Aborted THEN Exit("cancelled")
           ELSE UNCHANGED <<readerLocked, streamExit>>

\* lines 210-230: reader.read() gives the next bytes, however many
ReadValue ==
    \E k \in 1..Len(unread) :
      LET value == SubSeq(unread, 1, k)
          decoded == Decode(pending, value)
          parts == Split(buffer \o decoded.text)
      IN  /\ spc = "read"
          /\ ~Aborted
          /\ unread' = SubSeq(unread, k + 1, Len(unread))
          /\ pending' = decoded.held
          /\ buffer' = Remainder(parts)
          /\ splitInLine' = (splitInLine \/ (k < Len(unread) /\ (Last(parts) # <<>> \/ decoded.held # <<>>)))
          /\ Continue(Front(parts))
          /\ UNCHANGED <<upstream, abortedAt>>

\* lines 210-211 and 232-234: reader.read() gives done
ReadDone ==
    /\ spc = "read"
    /\ ~Aborted
    /\ unread = <<>>
    /\ spc' = "done"
    /\ Exit("done")
    /\ UNCHANGED <<upstream, unread, pending, buffer, lines, splitInLine, yielded,
                   abortedAt>>

\* the consumer asks for the next chunk: the generator resumes after its yield
Resume ==
    /\ spc = "yielded"
    /\ Continue(lines)
    /\ UNCHANGED <<upstream, unread, pending, buffer, splitInLine, abortedAt>>

\* abortController.abort(), while the generator waits for its read or is
\* suspended at a yield
Abort ==
    /\ spc \in {"read", "yielded"}
    /\ ~Aborted
    /\ abortedAt' = Len(yielded)
    /\ UNCHANGED <<upstream, unread, pending, buffer, lines, splitInLine, yielded, spc,
                   readerLocked, streamExit>>

\* the read of an aborted fetch rejects with an AbortError: the lock is
\* released and lines 235-238 raise 'Request cancelled by user'
ReadAborted ==
    /\ spc = "read"
    /\ Aborted
    /\ spc' = "cancelled"
    /\ Exit("cancelled")
    /\ UNCHANGED <<upstream, unread, pending, buffer, lines, splitInLine, yielded,
                   abortedAt>>

\* reader.read() rejects, the connection being lost: the lock is released
\* and lines 239-240 raise the error
ReadFails ==
    /\ spc = "read"
    /\ ~Aborted
    /\ spc' = "failed"
    /\ Exit("error")
    /\ UNCHANGED <<upstream, unread, pending, buffer, lines, splitInLine, yielded,
                   abortedAt>>

\* the consumer leaves its for-await loop: the generator, suspended at its
\* yield, is made to return
ConsumerReturns ==
    /\ spc = "yielded"
    /\ spc' = "returned"
    /\ Exit("return")
    /\ UNCHANGED <<upstream, unread, pending, buffer, lines, splitInLine, yielded,
                   abortedAt>>

StreamNext ==
    \/ ReadValue /\ UNCHANGED <<gatewayVars, validateVars, mapVars, chatVars, clientVars, relayVars, limiterVars>>
    \/ ReadDone /\ UNCHANGED <<gatewayVars, validateVars, mapVars, chatVars, clientVars, relayVars, limiterVars>>
    \/ Resume /\ UNCHANGED <<gatewayVars, validateVars, mapVars, chatVars, clientVars, relayVars, limiterVars>>
    \/ Abort /\ UNCHANGED <<gatewayVars, validateVars, mapVars, chatVars, clientVars, relayVars, limiterVars>>
    \/ ReadAborted /\ UNCHANGED <<gatewayVars, validateVars, mapVars, chatVars, clientVars, relayVars, limiterVars>>
    \/ ReadFails /\ UNCHANGED <<gatewayVars, validateVars, mapVars, chatVars, clientVars, relayVars, limiterVars>>
    \/ ConsumerReturns /\ UNCHANGED <<gatewayVars, validateVars, mapVars, chatVars, clientVars, relayVars, limiterVars>>

SpecStream == StreamInit /\ [][StreamNext]_vars

(***************************************************************************)
(* The chat page of mainGenaration.tsx calling the service directly:       *)
(* handleSendMessage, handleStopGeneration and the relay's calls at the    *)
(* points where they wait.  The file of the service holds two definitions  *)
(* of OpenRouterService; which one a build links is not fixed by the       *)
(* source, so a run starts with either.                                    *)
(***************************************************************************)
MaxSends == 2
MaxReceived == 2

ServiceVersions == {1, 2}

\* lines 148, 165, 207, 237 in the first definition, lines 444, 457, 492, 519
\* in the second
CancelError(version) ==
    IF version = 1 THEN "Request cancelled by user" ELSE "Request cancelled"

\* the message of the error a relay call throws when the upstream fails,
\* lines 141-152 and 192-195, lines 438-447 and 479-482
RelayError(version, streaming, outcome) ==
    CASE outcome = "network" -> "Failed to fetch"
      [] outcome = "err_message" -> "Provider returned error"
      [] outcome = "err_not_json" -> "Unexpected token < in JSON at position 0"
      [] outcome = "err_no_message" /\ version = 1 /\ ~streaming -> CompletionError(outcome)
      [] outcome = "err_no_message" /\ version = 1 /\ streaming -> "Streaming request failed: 502"
      [] outcome = "err_no_message" /\ version = 2 /\ ~streaming -> "API failed: 502"
      [] outcome = "err_no_message" /\ version = 2 /\ streaming -> "Streaming failed: 502"
      [] OTHER -> ""

\* handleSendMessage, lines 737 and 808: the message the consumer takes for
\* a cancellation
IsCancellation(message) == message = "Request cancelled by user"

\* lines 760-769: the streaming placeholder is closed
Finalise(msgs) ==
    [i \in 1..Len(msgs) |-> IF msgs[i] = "streaming" THEN "assistant" ELSE msgs[i]]

\* lines 633-642: the streaming placeholder is marked as stopped
Stopped(msgs) ==
    [i \in 1..Len(msgs) |-> IF msgs[i] = "streaming" THEN "stopped" ELSE msgs[i]]

Sends(msgs) == Len(SelectSeq(msgs, LAMBDA m : m = "user"))

ChatInit ==
    /\ serviceVersion \in ServiceVersions
    /\ serviceKey \in BOOLEAN
    /\ chatPc = "idle" /\ responseType = "text"
    /\ signalAborted = FALSE /\ abortController = FALSE
    /\ chatError = "" /\ chatMessages = <<>> /\ received = 0 /\ raised = NoError
    /\ GatewayIdle /\ ValidateIdle /\ MapIdle /\ StreamIdle /\ ClientIdle /\ RelayIdle /\ LimiterIdle

\* handleSendMessage, lines 646-716 and 771: up to the relay's fetch.
\* Without a key testConnection gave false and no model was ever selected.
HandleSendMessage ==
    \E type \in {"text", "streaming"} :
      /\ chatPc = "idle"
      /\ Sends(chatMessages) < MaxSends
      /\ IF ~serviceKey
           THEN /\ chatError' = "Please select a model first"
                /\ UNCHANGED <<chatPc, responseType, signalAborted, abortController,
                               chatMessages, received, raised>>
           ELSE /\ chatMessages' = IF type = "streaming"
                                     THEN chatMessages \o <<"user", "streaming">>
                                     ELSE Append(chatMessages, "user")
                /\ chatError' = ""
                /\ signalAborted' = FALSE
                /\ abortController' = TRUE
                /\ responseType' = type
                /\ received' = 0
                /\ raised' = NoError
                /\ chatPc' = IF type = "streaming" THEN "stream_fetch" ELSE "fetch"
      /\ UNCHANGED <<serviceVersion, serviceKey>>

\* handleStopGeneration, lines 626-644
HandleStopGeneration ==
    /\ abortController
    /\ signalAborted' = TRUE
    /\ abortController' = FALSE
    /\ chatMessages' = Stopped(chatMessages)
    /\ UNCHANGED <<serviceVersion, serviceKey, chatPc, responseType, chatError,
                   received, raised>>

\* the catch and the finally of handleSendMessage, lines 805-825, for the
\* error the relay raised
Caught(message, byAbort) ==
    /\ raised' = [message |-> message, byAbort |-> byAbort]
    /\ IF IsCancellation(message)
         THEN UNCHANGED <<chatError, chatMessages>>
         ELSE /\ chatError' = message
              /\ chatMessages' = Append(chatMessages, "error")
    /\ abortController' = FALSE
    /\ chatPc' = "idle"

\* the catch of the stream loop, lines 736-740: a cancellation falls through
\* to lines 742-769 and the placeholder is closed, anything else is thrown
\* to the outer catch
StreamCaught(message, byAbort) ==
    IF IsCancellation(message)
      THEN /\ raised' = [message |-> message, byAbort |-> byAbort]
           /\ chatMessages' = Finalise(chatMessages)
           /\ abortController' = FALSE
           /\ chatPc' = "idle"
           /\ UNCHANGED chatError
      ELSE Caught(message, byAbort)

\* createCompletion settles, lines 771-804: an aborted fetch rejects with an
\* AbortError, which the relay turns into its cancellation error
CompletionSettles ==
    \E outcome \in FetchOutcomes :
      /\ chatPc = "fetch"
      /\ IF signalAborted THEN Caught(CancelError(serviceVersion), TRUE)
         ELSE IF outcome # "ok"
           THEN Caught(RelayError(serviceVersion, FALSE, outcome), FALSE)
         ELSE /\ chatMessages' = Append(chatMessages, "assistant")
              /\ abortController' = FALSE
              /\ chatPc' = "idle"
              /\ UNCHANGED <<chatError, raised>>
      /\ UNCHANGED <<serviceVersion, serviceKey, responseType, signalAborted, received>>

\* the fetch of createStreamingCompletion settles
StreamFetchSettles ==
    \E outcome \in FetchOutcomes :
      /\ chatPc = "stream_fetch"
      /\ IF signalAborted THEN StreamCaught(CancelError(serviceVersion), TRUE)
         ELSE IF outcome # "ok"
           THEN StreamCaught(RelayError(serviceVersion, TRUE, outcome), FALSE)
         ELSE /\ chatPc' = "read"
              /\ UNCHANGED <<abortController, chatError, chatMessages, raised>>
      /\ UNCHANGED <<serviceVersion, serviceKey, responseType, signalAborted, received>>

\* a read gives a chunk, lines 716-735: the loop takes it and asks for the
\* next (the signal cannot be triggered in between)
ChunkReceived ==
    /\ chatPc = "read"
    /\ ~signalAborted
    /\ received < MaxReceived
    /\ received' = received + 1
    /\ UNCHANGED <<serviceVersion, serviceKey, chatPc, responseType, signalAborted,
                   abortController, chatError, chatMessages, raised>>

\* the stream ends, lines 742-769 and the finally
StreamEnds ==
    /\ chatPc = "read"
    /\ ~signalAborted
    /\ chatMessages' = Finalise(chatMessages)
    /\ abortController' = FALSE
    /\ chatPc' = "idle"
    /\ UNCHANGED <<serviceVersion, serviceKey, responseType, signalAborted, chatError,
                   received, raised>>

\* the read fails: the connection broke, or the fetch was aborted and the
\* relay raises its cancellation error
StreamReadFails ==
    /\ chatPc = "read"
    /\ IF signalAborted THEN StreamCaught(CancelError(serviceVersion), TRUE)
       ELSE StreamCaught(RelayError(serviceVersion, TRUE, "network"), FALSE)
    /\ UNCHANGED <<serviceVersion, serviceKey, responseType, signalAborted, received>>

ChatNext ==
    \/ HandleSendMessage /\ UNCHANGED <<gatewayVars, validateVars, mapVars, streamVars, clientVars, relayVars, limiterVars>>
    \/ HandleStopGeneration /\ UNCHANGED <<gatewayVars, validateVars, mapVars, streamVars, clientVars, relayVars, limiterVars>>
    \/ CompletionSettles /\ UNCHANGED <<gatewayVars, validateVars, mapVars, streamVars, clientVars, relayVars, limiterVars>>
    \/ StreamFetchSettles /\ UNCHANGED <<gatewayVars, validateVars, mapVars, streamVars, clientVars, relayVars, limiterVars>>
    \/ ChunkReceived /\ UNCHANGED <<gatewayVars, validateVars, mapVars, streamVars, clientVars, relayVars, limiterVars>>
    \/ StreamEnds /\ UNCHANGED <<gatewayVars, validateVars, mapVars, streamVars, clientVars, relayVars, limiterVars>>
    \/ StreamReadFails /\ UNCHANGED <<gatewayVars, validateVars, mapVars, streamVars, clientVars, relayVars, limiterVars>>

SpecChat == ChatInit /\ [][ChatNext]_vars

(***************************************************************************)
(* The chat page that talks to the gateway through chatService: the        *)
(* component of part_004 and that of chatInterface.tsx, which differ in    *)
(* the stream loop's access to chunk.choices.  Invocations of              *)
(* handleSendMessage can overlap: Stop re-enables Send while the earlier   *)
(* request, which chatService never aborts, is still in flight.            *)
(***************************************************************************)
MaxClientSends == 2

ClientMessage(kind, streaming, of) == [kind |-> kind, isStreaming |-> streaming, of |-> of]

\* one invocation of handleSendMessage: where it waits, its controller's
\* signal, the frames of the gateway response body not yet read, whether
\* the upstream connection of the gateway broke, and how it ended
ClientCall(type) ==
    [type |-> type, pc |-> "fetch", aborted |-> FALSE, body |-> <<>>,
     broke |-> FALSE, ended |-> ""]

\* the body of a streaming gateway response, POST lines 162-176: the data
\* frames, then data: [DONE], or the error frame when the relay threw
StreamBody(n, broke) ==
    [i \in 1..n |-> DataFrame(i)] \o <<IF broke THEN ErrorFrame ELSE DoneFrame>>

\* the next frame of a body is the given closing frame (the frames before
\* the last one are data frames)
NextIs(frames, closing) == Len(frames) = 1 /\ Head(frames) = closing

ClientOutcomes == {"ok", "network", "rate_limit", "err_message"}

\* chatService, lines 834-837 and 856-859: errorData.error of the gateway's
\* answer, or the rejection of the fetch
ClientErrorMessage(outcome) ==
    CASE outcome = "network" -> "Failed to fetch"
      [] outcome = "rate_limit" -> "Rate limit exceeded. Please try again later."
      [] outcome = "err_message" -> CompletionError(outcome)
      [] OTHER -> ""

ClientInputs == {"hi", "<script>"}

\* validateInput of the component, lines 783-807
InputError(text) ==
    IF text = "<script>" THEN "Message contains potentially harmful content" ELSE ""

ClientInit ==
    /\ safeAccess \in BOOLEAN
    /\ calls = <<>> /\ storedController = 0
    /\ isLoading = FALSE /\ isTyping = FALSE
    /\ clientError = "" /\ clientMessages = <<>>
    /\ GatewayIdle /\ ValidateIdle /\ MapIdle /\ StreamIdle /\ ChatIdle /\ RelayIdle /\ LimiterIdle

\* handleSubmit and handleSendMessage, lines 809-888 and 943: up to the
\* fetch of chatService
ClientSend ==
    \E type \in {"text", "streaming"}, text \in ClientInputs :
      /\ ~isLoading
      /\ Len(calls) < MaxClientSends
      /\ IF InputError(text) # ""
           THEN /\ clientError' = InputError(text)
                /\ UNCHANGED <<calls, storedController, isLoading, isTyping, clientMessages>>
           ELSE /\ calls' = Append(calls, ClientCall(type))
                /\ clientMessages' =
                     IF type = "streaming"
                       THEN clientMessages \o <<ClientMessage("user", FALSE, Len(calls) + 1),
                                                ClientMessage("assistant", TRUE, Len(calls) + 1)>>
                       ELSE Append(clientMessages, ClientMessage("user", FALSE, Len(calls) + 1))
                /\ isLoading' = TRUE
                /\ isTyping' = (type = "text")
                /\ clientError' = ""
                /\ storedController' = Len(calls) + 1
      /\ UNCHANGED safeAccess

\* handleStopGeneration, lines 752-770; the Stop button is there while
\* isLoading or isTyping
ClientStop ==
    /\ isLoading \/ isTyping
    /\ storedController # 0
    /\ calls' = [calls EXCEPT ![storedController].aborted = TRUE]
    /\ storedController' = 0
    /\ isLoading' = FALSE
    /\ isTyping' = FALSE
    /\ clientMessages' =
         [i \in 1..Len(clientMessages) |->
            IF clientMessages[i].kind = "assistant" /\ clientMessages[i].isStreaming
              THEN [clientMessages[i] EXCEPT !.isStreaming = FALSE]
              ELSE clientMessages[i]]
    /\ UNCHANGED <<safeAccess, clientError>>

\* the finally of handleSendMessage, lines 993-997
ClientFinally ==
    /\ isLoading' = FALSE
    /\ isTyping' = FALSE
    /\ storedController' = 0

\* the catch of handleSendMessage, lines 977-992 (the stream loop's catch,
\* lines 908-912, has thrown the error on), then the finally
ClientCaught(i, message) ==
    /\ IF message = "Request cancelled by user"
         THEN UNCHANGED <<clientError, clientMessages>>
         ELSE /\ clientError' = message
              /\ clientMessages' = Append(clientMessages, ClientMessage("error", FALSE, i))
    /\ calls' = [calls EXCEPT ![i].pc = "ended", ![i].ended = "error"]
    /\ ClientFinally

\* lines 914-941: the stream loop is over, the placeholder is closed; then
\* the finally
ClientStreamOver(i) ==
    /\ clientMessages' =
         [j \in 1..Len(clientMessages) |->
            IF clientMessages[j].kind = "assistant" /\ clientMessages[j].of = i
              THEN [clientMessages[j] EXCEPT !.isStreaming = FALSE]
              ELSE clientMessages[j]]
    /\ calls' = [calls EXCEPT ![i].pc = "ended", ![i].ended = "completed"]
    /\ ClientFinally
    /\ UNCHANGED clientError

\* the fetch of chatService settles: the answer of a buffered request, or
\* the failure of either kind of request
ClientFetchSettles ==
    \E i \in DOMAIN calls, outcome \in ClientOutcomes :
      /\ calls[i].pc = "fetch"
      /\ outcome = "ok" => calls[i].type = "text"
      /\ IF outcome = "ok"
           THEN /\ clientMessages' = Append(clientMessages, ClientMessage("assistant", FALSE, i))
                /\ calls' = [calls EXCEPT ![i].pc = "ended", ![i].ended = "completed"]
                /\ ClientFinally
                /\ UNCHANGED clientError
           ELSE ClientCaught(i, ClientErrorMessage(outcome))
      /\ UNCHANGED safeAccess

\* the gateway answers a streaming request with 200 and a body
ClientStreamOpens ==
    \E i \in DOMAIN calls, n \in 0..MaxFrames, broke \in BOOLEAN :
      /\ calls[i].pc = "fetch"
      /\ calls[i].type = "streaming"
      /\ calls' = [calls EXCEPT ![i].pc = "read", ![i].body = StreamBody(n, broke),
                                ![i].broke = broke]
      /\ UNCHANGED <<safeAccess, storedController, isLoading, isTyping, clientError,
                     clientMessages>>

\* chatService lines 868-895 with the stream loop, lines 887-907: the next
\* frame is read
ClientFrame ==
    \E i \in DOMAIN calls :
      /\ calls[i].pc = "read"
      /\ calls[i].body # <<>>
      /\ IF NextIs(calls[i].body, DoneFrame) \/ calls[i].aborted
           THEN ClientStreamOver(i)
         ELSE IF NextIs(calls[i].body, ErrorFrame) /\ ~safeAccess
           THEN ClientCaught(i, "Cannot read properties of undefined (reading '0')")
         ELSE /\ calls' = [calls EXCEPT ![i].body = Tail(@)]
              /\ UNCHANGED <<storedController, isLoading, isTyping, clientError,
                             clientMessages>>
      /\ UNCHANGED safeAccess

\* the body is closed without data: [DONE]: reader.read() gives done
ClientStreamCloses ==
    \E i \in DOMAIN calls :
      /\ calls[i].pc = "read"
      /\ calls[i].body = <<>>
      /\ ClientStreamOver(i)
      /\ UNCHANGED safeAccess

ClientNext ==
    \/ ClientSend /\ UNCHANGED <<gatewayVars, validateVars, mapVars, streamVars, chatVars, relayVars, limiterVars>>
    \/ ClientStop /\ UNCHANGED <<gatewayVars, validateVars, mapVars, streamVars, chatVars, relayVars, limiterVars>>
    \/ ClientFetchSettles /\ UNCHANGED <<gatewayVars, validateVars, mapVars, streamVars, chatVars, relayVars, limiterVars>>
    \/ ClientStreamOpens /\ UNCHANGED <<gatewayVars, validateVars, mapVars, streamVars, chatVars, relayVars, limiterVars>>
    \/ ClientFrame /\ UNCHANGED <<gatewayVars, validateVars, mapVars, streamVars, chatVars, relayVars, limiterVars>>
    \/ ClientStreamCloses /\ UNCHANGED <<gatewayVars, validateVars, mapVars, streamVars, chatVars, relayVars, limiterVars>>

SpecClient == ClientInit /\ [][ClientNext]_vars

(***************************************************************************)
(* The response stream of a streaming POST and its consumer: start() of    *)
(* the ReadableStream drives the relay's generator with a for-await loop;  *)
(* the consumer takes frames with read()                                   *)
(***************************************************************************)
MaxUpstreamReads == 3
MaxChunksPerRead == 2

\* the frames of the chunks one upstream read completes, numbered on from
\* the frames enqueued before
FramesOf(k) == [i \in 1..k |-> DataFrame(taken + Len(queue) + i)]

\* controller.enqueue for each of the frames, in one run of the loop: a
\* waiting read() of the consumer takes the first, the rest is queued
Enqueue(frames) ==
    IF pullPending /\ frames # <<>>
      THEN /\ taken' = taken + 1
           /\ queue' = queue \o Tail(frames)
           /\ pullPending' = FALSE
      ELSE /\ queue' = queue \o frames
           /\ UNCHANGED <<taken, pullPending>>

\* new ReadableStream({ start }): start() runs at construction and the
\* generator goes to its fetch
RelayInit ==
    /\ relayPc = "fetch" /\ upstreamReads = 0 /\ queue = <<>>
    /\ pullPending = FALSE /\ taken = 0
    /\ GatewayIdle /\ ValidateIdle /\ MapIdle /\ StreamIdle /\ ChatIdle /\ ClientIdle
    /\ LimiterIdle

\* the fetch settles: the first reader.read() is called, or the generator
\* throws and start() enqueues the error frame and closes
RelayFetchSettles ==
    /\ relayPc = "fetch"
    /\ \E ok \in BOOLEAN :
         IF ok
           THEN /\ relayPc' = "read"
                /\ upstreamReads' = upstreamReads + 1
                /\ UNCHANGED <<queue, pullPending, taken>>
           ELSE /\ relayPc' = "closed"
                /\ Enqueue(<<ErrorFrame>>)
                /\ UNCHANGED upstreamReads

\* reader.read() gives bytes holding k complete data lines: each chunk is
\* yielded and enqueued as the loop of start() goes round, and the generator
\* calls reader.read() again; with the [DONE] line among them it returns
\* and start() enqueues the terminal frame and closes
RelayReadValue ==
    /\ relayPc = "read"
    /\ \E k \in 0..MaxChunksPerRead, marker \in BOOLEAN :
         IF marker
           THEN /\ relayPc' = "closed"
                /\ Enqueue(Append(FramesOf(k), DoneFrame))
                /\ UNCHANGED upstreamReads
           ELSE /\ upstreamReads < MaxUpstreamReads
                /\ upstreamReads' = upstreamReads + 1
                /\ Enqueue(FramesOf(k))
                /\ UNCHANGED relayPc

\* reader.read() gives done: the generator returns
RelayReadDone ==
    /\ relayPc = "read"
    /\ relayPc' = "closed"
    /\ Enqueue(<<DoneFrame>>)
    /\ UNCHANGED upstreamReads

\* reader.read() rejects: the generator throws
RelayReadFails ==
    /\ relayPc = "read"
    /\ relayPc' = "closed"
    /\ Enqueue(<<ErrorFrame>>)
    /\ UNCHANGED upstreamReads

\* the consumer of the response body calls read(): it takes the frame at the
\* head of the queue, or waits for the next one
ConsumerPull ==
    /\ ~pullPending
    /\ queue # <<>> \/ relayPc # "closed"
    /\ IF queue # <<>>
         THEN /\ taken' = taken + 1
              /\ queue' = Tail(queue)
              /\ UNCHANGED pullPending
         ELSE /\ pullPending' = TRUE
              /\ UNCHANGED <<taken, queue>>
    /\ UNCHANGED <<relayPc, upstreamReads>>

RelayNext ==
    \/ RelayFetchSettles /\ UNCHANGED <<gatewayVars, validateVars, mapVars, streamVars, chatVars, clientVars, limiterVars>>
    \/ RelayReadValue /\ UNCHANGED <<gatewayVars, validateVars, mapVars, streamVars, chatVars, clientVars, limiterVars>>
    \/ RelayReadDone /\ UNCHANGED <<gatewayVars, validateVars, mapVars, streamVars, chatVars, clientVars, limiterVars>>
    \/ RelayReadFails /\ UNCHANGED <<gatewayVars, validateVars, mapVars, streamVars, chatVars, clientVars, limiterVars>>
    \/ ConsumerPull /\ UNCHANGED <<gatewayVars, validateVars, mapVars, streamVars, chatVars, clientVars, limiterVars>>

SpecRelay == RelayInit /\ [][RelayNext]_vars

(***************************************************************************)
(* The rate limiter on its own: checkRateLimit called at chosen times      *)
(***************************************************************************)
\* the clock values of a limiter run: a window opened at 0 has its deadline
\* at RATE_LIMIT_WINDOW and is over one millisecond later
LimiterTimes == {0, RATE_LIMIT_WINDOW, RATE_LIMIT_WINDOW + 1}

\* POST, lines 112-113: getClientIP and checkRateLimit for a request with
\* the headers given; admittedAt and lastCall record what was answered
CheckRateLimit(headers) ==
    LET clientIP == getClientIP(headers)
        key == getRateLimitKey(clientIP)
        allowed == checkRateLimitAllowed(rateLimitStore, clientIP, now)
    IN  /\ rateLimitStore' = checkRateLimitStore(rateLimitStore, clientIP, now)
        /\ admittedAt' = IF allowed
                           THEN [admittedAt EXCEPT ![key][now] = @ + 1]
                           ELSE admittedAt
        /\ lastCall' = [key |-> key, allowed |-> allowed,
                        forwarded |-> headers.forwarded, realIP |-> headers.realIP]
        /\ UNCHANGED <<now, history, apiKey, req, lastResponse>>

LimiterInit ==
    /\ now = 0
    /\ rateLimitStore = [k \in Keys |-> NoRecord]
    /\ admittedAt = [k \in Keys |-> [t \in LimiterTimes |-> 0]]
    /\ lastCall = NoCall
    /\ history = [k \in Keys |-> NoHistory] /\ apiKey = TRUE
    /\ req = EmptyBag /\ lastResponse = NoResponse
    /\ ValidateIdle /\ MapIdle /\ StreamIdle /\ ChatIdle /\ ClientIdle /\ RelayIdle

LimiterCall == \E headers \in ClientHeaders : CheckRateLimit(headers)

LimiterTick ==
    /\ \E t \in LimiterTimes : t > now /\ now' = t
    /\ UNCHANGED <<rateLimitStore, history, apiKey, req, lastResponse, admittedAt, lastCall>>

LimiterNext ==
    \/ LimiterCall /\ UNCHANGED <<validateVars, mapVars, streamVars, chatVars, clientVars, relayVars>>
    \/ LimiterTick /\ UNCHANGED <<validateVars, mapVars, streamVars, chatVars, clientVars, relayVars>>

SpecLimiter == LimiterInit /\ [][LimiterNext]_vars

(***************************************************************************)
(* The rate limiter with several clients                                   *)
(***************************************************************************)
MaxKeyCalls == 2

KeyTimes == {0, RATE_LIMIT_WINDOW + 1}

\* no address header; x-forwarded-for only; x-real-ip only; both, the
\* forwarded one a list
KeyHeaders ==
    { [forwarded |-> NoHeader, realIP |-> NoHeader],
      [forwarded |-> <<"10.0.0.1">>, realIP |-> NoHeader],
      [forwarded |-> NoHeader, realIP |-> <<"10.0.0.2">>],
      [forwarded |-> <<"10.0.0.1", "10.0.0.9">>, realIP |-> <<"10.0.0.2">>] }

ClientKeys == { getRateLimitKey(getClientIP(h)) : h \in KeyHeaders }

\* the record 60 admitted calls at time 0 leave
Exhausted == [count |-> RATE_LIMIT_MAX_REQUESTS, resetTime |-> RATE_LIMIT_WINDOW]

\* a run starts when each client has either made no call yet or has used up
\* the window it opened at 0
KeysInit ==
    /\ now = 0
    /\ rateLimitStore \in [ClientKeys -> {NoRecord, Exhausted}]
    /\ admittedAt = [k \in ClientKeys |-> [t \in KeyTimes |->
                       IF t = 0 /\ rateLimitStore[k] = Exhausted
                         THEN RATE_LIMIT_MAX_REQUESTS ELSE 0]]
    /\ lastCall = NoCall
    /\ history = [k \in Keys |-> NoHistory] /\ apiKey = TRUE
    /\ req = EmptyBag /\ lastResponse = NoResponse
    /\ ValidateIdle /\ MapIdle /\ StreamIdle /\ ChatIdle /\ ClientIdle /\ RelayIdle

\* a client's calls into a window it opens in the run are bounded
KeysCall ==
    \E headers \in KeyHeaders :
      LET record == rateLimitStore'[getRateLimitKey(getClientIP(headers))]
      IN  /\ CheckRateLimit(headers)
          /\ record = Exhausted \/ record.count <= MaxKeyCalls

KeysTick ==
    /\ \E t \in KeyTimes : t > now /\ now' = t
    /\ UNCHANGED <<rateLimitStore, history, apiKey, req, lastResponse, admittedAt, lastCall>>

KeysNext ==
    \/ KeysCall /\ UNCHANGED <<validateVars, mapVars, streamVars, chatVars, clientVars, relayVars>>
    \/ KeysTick /\ UNCHANGED <<validateVars, mapVars, streamVars, chatVars, clientVars, relayVars>>

SpecKeys == KeysInit /\ [][KeysNext]_vars

(***************************************************************************)
(* Properties of the gateway                                               *)
(***************************************************************************)

\* C1: for one client key, starting from no record, every call of
\* checkRateLimit that is at most the 60th of its 60-second window returns
\* true (so does the first call after a window has elapsed: it is the 1st of
\* a new window), and the 61st call of a window returns false and is answered
\* with HTTP 429 without an invocation being started.
C1_RateLimitWindow ==
    [][\A k \in Keys :
         history'[k] # history[k] =>
           /\ history'[k].n <= RATE_LIMIT_MAX_REQUESTS =>
                /\ history'[k].allowed
                /\ BagCardinality(req') = BagCardinality(req) + 1
           /\ history'[k].n = RATE_LIMIT_MAX_REQUESTS + 1 =>
                /\ ~history'[k].allowed
                /\ lastResponse'.status = 429
                /\ req' = req]_vars

\* the 61st call of the first window was answered 429, and a call made after
\* the window had elapsed has been allowed
C1_Witness ==
    \E k \in Keys :
      /\ history[k].start > RATE_LIMIT_WINDOW
      /\ history[k].n = 1
      /\ history[k].allowed
      /\ lastResponse.status = 429

GatewayOrder == <<"rate", "parse", "validate", "key", "construct", "map", "relay">>

IsPrefix(a, b) == Len(a) <= Len(b) /\ a = SubSeq(b, 1, Len(a))

\* C2: the steps of POST run in strict order: a request answered 429 by the
\* rate limiter has had neither its body parsed nor validated, and a request
\* rejected by validateInput has had no OpenRouterService constructed and no
\* upstream call made.
C2_StrictOrder ==
    /\ lastResponse # NoResponse => IsPrefix(lastResponse.steps, GatewayOrder)
    /\ \A r \in BagToSet(req) : IsPrefix(r.steps, GatewayOrder)
    /\ lastResponse.cause = "rate_limit" =>
         /\ "parse" \notin Range(lastResponse.steps)
         /\ "validate" \notin Range(lastResponse.steps)
    /\ lastResponse.cause \in {"invalid", "validator_threw"} =>
         /\ "construct" \notin Range(lastResponse.steps)
         /\ "relay" \notin Range(lastResponse.steps)
         /\ lastResponse.upstreamCalls = 0

\* a request has been rejected by validateInput with 400
C2_Witness ==
    /\ lastResponse.cause = "invalid"
    /\ lastResponse.status = 400
    /\ lastResponse.steps = <<"rate", "parse", "validate">>

FailureCauses ==
    {"malformed_body", "validator_threw", "network", "err_message", "err_no_message",
     "err_not_json"}

RelayFailures == {"network", "err_message", "err_no_message", "err_not_json"}

\* C3: every failed request, buffered or streaming, ends with an error HTTP
\* status and a JSON error payload, 500 for the failures of the relay; no
\* failed request ends with a success status.
C3_FailuresCarryErrorStatus ==
    lastResponse.cause \in FailureCauses =>
      /\ lastResponse.status >= 400
      /\ lastResponse.error # ""
      /\ lastResponse.cause \in RelayFailures => lastResponse.status = 500


(***************************************************************************)
(* Properties of the validator.  The rules are stated here as the          *)
(* specification states them, one predicate per rule.                      *)
(***************************************************************************)
ReasonObject == "Invalid request data"
ReasonModel == "Model is required"
ReasonMessages == "Messages array is required and cannot be empty"
ReasonMessageFields == "Each message must have role and content"
ReasonRole == "Invalid message role"
ReasonContent == "Message content must be a non-empty string"
ReasonLength == "Message content too long"
ReasonTemperature == "Temperature must be between 0 and 2"
ReasonMaxTokens == "Max tokens must be between 1 and 4000"

RuleObject(p) == p.t \in {"obj", "arr"}
RuleModel(p) == p.model.t = "str" /\ p.model.n > 0
RuleMessages(p) == p.messages.t = "arr" /\ Len(p.messages.items) > 0

\* the reason of the first rule the message violates, "" when it violates none
MessageReason(m) ==
    IF m.t # "obj" \/ ~Truthy(m.role) \/ ~Truthy(m.content) THEN ReasonMessageFields
    ELSE IF m.role.t # "str" \/ m.role.s \notin {"user", "assistant", "system"} THEN ReasonRole
    ELSE IF m.content.t # "str" \/ m.content.s \in WhitespaceOnly THEN ReasonContent
    ELSE IF m.content.n > 10000 THEN ReasonLength
    ELSE ""

MessageReasons(p) ==
    IF p.messages.t = "arr"
      THEN SelectSeq([i \in 1..Len(p.messages.items) |-> MessageReason(p.messages.items[i])],
                     LAMBDA r : r # "")
      ELSE <<>>

RuleTemperature(p) ==
    p.temperature = Undefined
      \/ (p.temperature.t = "num" /\ p.temperature.n >= 0 /\ p.temperature.n <= 2 * Scale)

RuleMaxTokensRange(p) ==
    p.max_tokens = Undefined
      \/ (p.max_tokens.t = "num" /\ p.max_tokens.n >= Scale /\ p.max_tokens.n <= 4000 * Scale)

RuleMaxTokens(p) ==
    p.max_tokens = Undefined
      \/ (p.max_tokens.t = "num" /\ p.max_tokens.n % Scale = 0
            /\ p.max_tokens.n >= Scale /\ p.max_tokens.n <= 4000 * Scale)

\* the reasons of the rules the payload violates, in the order of the rules
ViolatedRules(p) ==
    (IF RuleObject(p) THEN <<>> ELSE <<ReasonObject>>)
      \o (IF RuleModel(p) THEN <<>> ELSE <<ReasonModel>>)
      \o (IF RuleMessages(p) THEN <<>> ELSE <<ReasonMessages>>)
      \o (IF MessageReasons(p) = <<>> THEN <<>> ELSE <<Head(MessageReasons(p))>>)
      \o (IF RuleTemperature(p) THEN <<>> ELSE <<ReasonTemperature>>)
      \o (IF RuleMaxTokensRange(p) THEN <<>> ELSE <<ReasonMaxTokens>>)

\* C4: for a payload that violates several rules, validateInput reports the
\* reason of the first violated rule in the order object, model, messages,
\* per-message role/content/length, temperature, max_tokens, and the gateway
\* answers {error: reason} with HTTP 400.
C4_FirstViolatedRule ==
    (result # NotRun /\ Len(ViolatedRules(payload)) >= 2) =>
      /\ result = Invalid(Head(ViolatedRules(payload)))
      /\ reply = Reply(400, Head(ViolatedRules(payload)))

MessagesAbsentOrEmpty(p) ==
    p.t = "obj" /\ (p.messages.t = "undefined" \/ (p.messages.t = "arr" /\ p.messages.items = <<>>))

\* C5 as stated: every payload whose messages is missing or an empty list,
\* whatever its other fields, is rejected with the fixed reason and HTTP 400.
C5_EmptyMessagesAnyFields ==
    (result # NotRun /\ MessagesAbsentOrEmpty(payload)) =>
      /\ result = Invalid(ReasonMessages)
      /\ reply = Reply(400, ReasonMessages)

\* C5, amended: every object payload whose model is a non-empty string and
\* whose messages is missing or an empty list, whatever temperature,
\* max_tokens and stream are, is rejected with the fixed reason and HTTP 400.
C5_EmptyMessages ==
    (result # NotRun /\ MessagesAbsentOrEmpty(payload) /\ RuleModel(payload)) =>
      /\ result = Invalid(ReasonMessages)
      /\ reply = Reply(400, ReasonMessages)

\* an empty list with a good model and a bad temperature has been rejected
\* for its messages
C5_Witness ==
    /\ result = Invalid(ReasonMessages)
    /\ reply.status = 400
    /\ payload.messages = Arr(<<>>)
    /\ RuleModel(payload)
    /\ ~RuleTemperature(payload)

\* C6: validateInput is total and pure: for every payload it returns valid,
\* or invalid with a reason, never throws, and changes neither the payload
\* nor the rate-limit store.
C6_TotalAndPure ==
    result # NotRun =>
      /\ ~result.threw
      /\ result = Valid \/ (~result.isValid /\ result.error # "")
      /\ payload = payloadIn
      /\ rateLimitStore = [k \in Keys |-> NoRecord]

OtherwiseValid(p) ==
    /\ RuleObject(p) /\ RuleModel(p) /\ RuleMessages(p) /\ MessageReasons(p) = <<>>

\* C7: for an otherwise valid payload that carries a temperature, validation
\* passes when the temperature is a number in [0, 2], bounds included, and
\* fails with the temperature reason for every number outside and every
\* non-number.
C7_TemperatureRange ==
    (result # NotRun /\ OtherwiseValid(payload) /\ RuleMaxTokens(payload)
       /\ payload.temperature # Undefined) =>
      IF payload.temperature.t = "num" /\ payload.temperature.n >= 0
           /\ payload.temperature.n <= 2 * Scale
        THEN result = Valid /\ reply = NoReply
        ELSE result = Invalid(ReasonTemperature) /\ reply = Reply(400, ReasonTemperature)

\* temperature 2 has passed
C7_Witness ==
    /\ result = Valid
    /\ payload.temperature = Num(2 * Scale)
    /\ payload.max_tokens = Num(MaxTokensLimit * Scale)

\* C8: for an otherwise valid payload that carries max_tokens, validation
\* passes only if max_tokens is an integer in [1, 4000].
C8_MaxTokensInteger ==
    (result = Valid /\ OtherwiseValid(payload) /\ RuleTemperature(payload)
       /\ payload.max_tokens # Undefined) =>
      /\ payload.max_tokens.t = "num"
      /\ payload.max_tokens.n % Scale = 0
      /\ payload.max_tokens.n >= 1 * Scale /\ payload.max_tokens.n <= 4000 * Scale


(***************************************************************************)
(* Properties of the mapper                                                *)
(***************************************************************************)
InTable(id) == id.s \in DOMAIN MODEL_MAP \/ id.s \in DOMAIN REV_MAP

\* C9: mapToInternalModelId(mapToExternalModelId(x)) = x for every key x of
\* the table, and both mappings leave every id that is not in the table as
\* it is.
C9_RoundTrip ==
    /\ (modelId.s \in DOMAIN MODEL_MAP /\ mapOps = <<"external", "internal">>) =>
         mapped = modelId
    /\ (~InTable(modelId) /\ Len(mapOps) = 1) => mapped = modelId

(***************************************************************************)
(* Properties of the streaming relay                                       *)
(***************************************************************************)
RECURSIVE AllChunks(_)
AllChunks(ls) ==
    LET run == RunLines(ls)
    IN  IF run.to = "yielded" THEN <<run.chunk>> \o AllChunks(run.rest) ELSE <<>>

\* the chunks yielded when the whole body arrives in one read
OneRead(bytes) == AllChunks(Front(Split(Decode(<<>>, bytes).text)))

\* C10: for a fixed upstream byte stream the chunks yielded are the same for
\* every way of splitting the bytes into reads: at every moment they are the
\* first chunks of, and at the end they are exactly, the chunks of the body
\* read in one piece.
C10_SplitIndependent ==
    /\ IsPrefix(yielded, OneRead(upstream))
    /\ spc = "done" => yielded = OneRead(upstream)

\* two chunks were yielded from a body that was split inside a line and
\* that ends with a line that has no newline
C10_Witness ==
    /\ spc = "done"
    /\ splitInLine
    /\ Len(yielded) = 2
    /\ yielded[2] = [t |-> "str", v |-> <<TwoByteChar>>]
    /\ buffer # <<>>

\* C11: once the cancellation signal is triggered the streaming relay yields
\* no further chunk (the complete data lines of the read in hand included),
\* and a signal triggered before the first chunk ends the stream with the
\* cancellation error and no chunk
C11_CancelStopsYield ==
    Aborted =>
      /\ Len(yielded) = abortedAt
      /\ (abortedAt = 0 /\ spc \notin {"read", "yielded"} => spc = "cancelled")

\* C12: whatever the interleaving of the requests in flight for one client
\* key, the count stored for the key is the number of requests admitted in
\* the current window, and no window admits more than 60
C12_NoLostIncrement ==
    \A k \in Keys :
      rateLimitStore[k] # NoRecord =>
        /\ rateLimitStore[k].count = history[k].admitted
        /\ history[k].admitted <= RATE_LIMIT_MAX_REQUESTS

\* two admitted requests are in flight at different steps, the later one
\* having taken the last place of its window
C12_Witness ==
    /\ \E r1, r2 \in BagToSet(req) : r1.pc # r2.pc
    /\ \E k \in Keys :
         /\ rateLimitStore[k].count = RATE_LIMIT_MAX_REQUESTS
         /\ history[k].admitted = RATE_LIMIT_MAX_REQUESTS

\* the answer is to a request that was admitted and whose body was valid
AnswersValidRequest ==
    /\ lastResponse.mode # "none"
    /\ lastResponse.cause \notin {"invalid", "validator_threw"}

\* C13: with no OPENROUTER_API_KEY configured, every admitted valid request
\* is answered 500 'OpenRouter API key not configured' and no relay call,
\* real or synthetic, is made
C13_NoKeyConfigurationError ==
    ~apiKey =>
      /\ \A r \in BagToSet(req) : r.pc = "json" /\ r.upstreamCalls = 0
      /\ {"construct", "relay"} \cap Range(lastResponse.steps) = {}
      /\ lastResponse.upstreamCalls = 0
      /\ lastResponse.completion = NoCompletion
      /\ AnswersValidRequest =>
           /\ lastResponse.status = 500
           /\ lastResponse.error = "OpenRouter API key not configured"

\* without a key a valid streaming request has been answered while another
\* request is in flight
C13_Witness ==
    /\ ~apiKey
    /\ AnswersValidRequest
    /\ lastResponse.mode = "streaming"
    /\ lastResponse.cause = "no_key"
    /\ req # EmptyBag

IsMock(completion) ==
    /\ completion # NoCompletion
    /\ completion.id[1] = MockPrefix
    /\ DemoMarker \in Range(completion.content)

\* C14 as stated: a valid buffered request made with no upstream credential
\* configured is answered 200 with the mock completion (demo-mode marker in
\* the content, 'mock-' id)
C14_MockEndToEnd ==
    (~apiKey /\ AnswersValidRequest /\ lastResponse.mode = "buffered") =>
      /\ lastResponse.status = 200
      /\ IsMock(lastResponse.completion)

\* C14: through the gateway a valid buffered request made with no upstream
\* credential configured is answered 500 'OpenRouter API key not
\* configured', and no gateway response carries the relay's mock completion
C14_GatewayNeverMock ==
    /\ ~IsMock(lastResponse.completion)
    /\ (~apiKey /\ AnswersValidRequest /\ lastResponse.mode = "buffered") =>
         /\ lastResponse.status = 500
         /\ lastResponse.error = "OpenRouter API key not configured"
         /\ lastResponse.completion = NoCompletion

C14_Witness ==
    /\ ~apiKey
    /\ AnswersValidRequest
    /\ lastResponse.mode = "buffered"
    /\ lastResponse.status = 500

\* the answer is the body of a streaming response that has been closed
StreamClosed ==
    /\ lastResponse.mode = "streaming"
    /\ "relay" \in Range(lastResponse.steps)

\* C15: every streaming response, whatever happens upstream, is the data
\* frames of the chunks in the order the relay yielded them, followed by
\* the frame 'data: [DONE]', and only then is the stream closed
C15_StreamEndsWithDone ==
    StreamClosed =>
      /\ lastResponse.frames # <<>>
      /\ Last(lastResponse.frames) = DoneFrame
      /\ \A i \in 1..(Len(lastResponse.frames) - 1) :
           lastResponse.frames[i] = DataFrame(i)

C17_SingleUpstreamCall ==
    /\ \A r \in BagToSet(req) : r.upstreamCalls <= 1
    /\ lastResponse.upstreamCalls <= 1
    /\ lastResponse.cause \in RelayFailures =>
         /\ lastResponse.upstreamCalls = 1
         /\ IF lastResponse.mode = "buffered"
              THEN /\ lastResponse.status = 500
                   /\ lastResponse.error = CompletionError(lastResponse.cause)
              ELSE /\ lastResponse.frames # <<>>
                   /\ Last(lastResponse.frames) = ErrorFrame

\* a buffered call has failed at the upstream, and so has a stream after a
\* chunk: each counted one call
C17_Witness ==
    /\ lastResponse.cause = "network"
    /\ lastResponse.mode = "streaming"
    /\ Len(lastResponse.frames) > 1
    /\ lastResponse.upstreamCalls = 1
    /\ \E r \in BagToSet(req) : r.pc = "fetch" /\ r.upstreamCalls = 1

\* C20: in buffered mode a non-success upstream status makes the relay raise
\* the upstream's error message when the upstream gave one, and otherwise
\* (no message, or an error body that is not JSON) a generic message with
\* the status code; the gateway answers 500 with that message
C20_UpstreamErrorMessage ==
    (/\ lastResponse.mode = "buffered"
     /\ lastResponse.cause \in {"err_message", "err_no_message", "err_not_json"}) =>
      /\ lastResponse.status = 500
      /\ lastResponse.error =
           IF lastResponse.cause = "err_message" THEN "Provider returned error"
           ELSE "API request failed: 502"

IsDataLine(line) == StartsWith(Trim(line), DataPrefix)

\* the payloads of the complete data lines of a body, in upstream order, up
\* to the terminal marker
PayloadsBeforeMarker(bytes) ==
    LET dataLines == SelectSeq(Front(Split(Decode(<<>>, bytes).text)), IsDataLine)
        payloads == [i \in 1..Len(dataLines) |-> Slice(Trim(dataLines[i]), 6)]
        markers == { i \in 1..Len(payloads) : payloads[i] = DoneMarker }
        end == IF markers = {} THEN Len(payloads)
               ELSE (CHOOSE i \in markers : \A j \in markers : i <= j) - 1
    IN  SubSeq(payloads, 1, end)

WellFormedChunks(bytes) ==
    LET wellFormed == SelectSeq(PayloadsBeforeMarker(bytes), JSONParses)
    IN  [i \in 1..Len(wellFormed) |-> JSONParse(wellFormed[i])]

\* C19: a data line whose payload is not valid JSON is skipped and the
\* stream goes on: the chunks yielded are those of the well-formed data
\* lines before the terminal marker, all of them once the stream is done,
\* in upstream order
C19_MalformedSkipped ==
    /\ IsPrefix(yielded, WellFormedChunks(upstream))
    /\ spc = "done" => yielded = WellFormedChunks(upstream)

\* a malformed data line stood between two well-formed ones and both were
\* yielded
C19_Witness ==
    /\ spc = "done"
    /\ Len(PayloadsBeforeMarker(upstream)) = 3
    /\ ~JSONParses(PayloadsBeforeMarker(upstream)[2])
    /\ Len(yielded) = 2

\* C18: a cancelled buffered call and a cancelled stream raise the same
\* cancellation error, no network or upstream failure raises that error,
\* and handleSendMessage, receiving it, adds no error message and sets no
\* error state
C18_CancellationSilent ==
    /\ raised.byAbort =>
         /\ raised.message = CancelError(serviceVersion)
         /\ chatError = ""
         /\ Last(chatMessages) # "error"
    /\ (raised # NoError /\ ~raised.byAbort) =>
         /\ raised.message # CancelError(serviceVersion)
         /\ chatError = raised.message

\* C21: when the upstream connection breaks in the middle of a stream, the
\* stream to the consumer ends and the client's stream loop ends with an
\* error, not as a normally completed response
C21_BrokenStreamIsError ==
    \A i \in DOMAIN calls :
      (calls[i].broke /\ ~calls[i].aborted /\ calls[i].ended # "") =>
        /\ calls[i].ended = "error"
        /\ \E j \in DOMAIN clientMessages :
             clientMessages[j].kind = "error" /\ clientMessages[j].of = i

\* C22: the relay is pull-driven end to end: no read of the upstream body is
\* outstanding while a frame waits in the response stream and the consumer
\* has not asked for the next chunk
C22_ReadsOnlyOnDemand ==
    (queue # <<>> /\ ~pullPending) => relayPc # "read"

\* the calls of a key admitted at the times from s to e
RECURSIVE SumOver(_, _)
SumOver(f, ts) ==
    IF ts = {} THEN 0
    ELSE LET t == CHOOSE x \in ts : TRUE IN f[t] + SumOver(f, ts \ {t})

AdmittedIn(k, s, e) == SumOver(admittedAt[k], {t \in DOMAIN admittedAt[k] : s <= t /\ t <= e})

\* the intervals of at most 60 s, given by the clock values they start and end at
Intervals(k) ==
    { <<s, e>> \in (DOMAIN admittedAt[k]) \X (DOMAIN admittedAt[k]) :
        s <= e /\ e - s <= RATE_LIMIT_WINDOW }

\* C23 as stated: a burst that uses up one window and a burst that uses up the
\* next put 120 admitted requests into one interval of at most 60 s
C23_BoundaryBurstsWithinWindow ==
    \A k \in DOMAIN admittedAt :
      AdmittedIn(k, 0, RATE_LIMIT_WINDOW + 1) = 2 * RATE_LIMIT_MAX_REQUESTS =>
        \E i \in Intervals(k) : AdmittedIn(k, i[1], i[2]) = 2 * RATE_LIMIT_MAX_REQUESTS

\* C23: for a single key, any interval of at most 60 s holds at most 119
\* admitted requests (the request that opens a window and the first request
\* after its deadline are more than 60 s apart), and at most 120 are admitted
\* in the 60 001 ms across a window boundary
C23_AcrossBoundary ==
    \A k \in DOMAIN admittedAt :
      /\ \A i \in Intervals(k) : AdmittedIn(k, i[1], i[2]) <= 2 * RATE_LIMIT_MAX_REQUESTS - 1
      /\ AdmittedIn(k, 0, RATE_LIMIT_WINDOW + 1) <= 2 * RATE_LIMIT_MAX_REQUESTS

\* one request opens the window, 59 come at its deadline and 60 one
\* millisecond later: 119 within a millisecond; and 120 in all
C23_Witness ==
    \E k \in DOMAIN admittedAt :
      /\ AdmittedIn(k, RATE_LIMIT_WINDOW, RATE_LIMIT_WINDOW + 1) = 2 * RATE_LIMIT_MAX_REQUESTS - 1
      /\ AdmittedIn(k, 0, RATE_LIMIT_WINDOW + 1) = 2 * RATE_LIMIT_MAX_REQUESTS
      /\ ~lastCall.allowed

\* C24: every stored record has a count from 1 to 60; a call within the
\* window of its key adds exactly 1 to the count iff the count was below 60,
\* and a rejected call leaves count and deadline as they were
C24_RecordCount ==
    /\ [](\A k \in DOMAIN rateLimitStore :
            rateLimitStore[k] # NoRecord =>
              /\ 1 <= rateLimitStore[k].count
              /\ rateLimitStore[k].count <= RATE_LIMIT_MAX_REQUESTS)
    /\ [][now' = now =>
            LET before == rateLimitStore[lastCall'.key]
                after == rateLimitStore'[lastCall'.key]
            IN  /\ (before # NoRecord /\ now <= before.resetTime) =>
                      /\ (after.count = before.count + 1) <=>
                           (before.count < RATE_LIMIT_MAX_REQUESTS)
                      /\ after.resetTime = before.resetTime
                /\ ~lastCall'.allowed => after = before]_vars

\* a call has been rejected at the deadline of a window that holds 60
C24_Witness ==
    /\ ~lastCall.allowed
    /\ lastCall.key \in DOMAIN rateLimitStore
    /\ rateLimitStore[lastCall.key].count = RATE_LIMIT_MAX_REQUESTS
    /\ now = rateLimitStore[lastCall.key].resetTime
    /\ admittedAt[lastCall.key][now] > 0

\* the store with the record of every key but k replaced by the one given
Elsewhere(store, k, record) ==
    [j \in DOMAIN store |-> IF j = k THEN store[j] ELSE record]

\* C27: a call of checkRateLimit for one key leaves the record of every other
\* key as it was, its answer is the same whatever the other keys' records
\* are, and a request with neither x-forwarded-for nor x-real-ip is counted
\* under the key of 'unknown'
C27_KeysIndependent ==
    [][now' = now =>
         LET key == lastCall'.key
         IN  /\ \A k \in DOMAIN rateLimitStore \ {key} :
                  rateLimitStore'[k] = rateLimitStore[k]
             /\ \A record \in {NoRecord, Exhausted} :
                  lastCall'.allowed =
                    checkRateLimitAllowed(Elsewhere(rateLimitStore, key, record), key[2], now)
             /\ (lastCall'.forwarded = NoHeader /\ lastCall'.realIP = NoHeader) =>
                  key = getRateLimitKey("unknown")]_vars

\* a client is admitted while another one is being refused, and two requests
\* without address headers have been counted together
C27_Witness ==
    /\ lastCall.allowed
    /\ lastCall.key # getRateLimitKey("unknown")
    /\ \E k \in DOMAIN rateLimitStore \ {lastCall.key} :
         rateLimitStore[k] = Exhausted /\ now <= rateLimitStore[k].resetTime
    /\ rateLimitStore[getRateLimitKey("unknown")].count = 2

\* the bytes the reads so far have returned
Consumed == SubSeq(upstream, 1, Len(upstream) - Len(unread))

\* the body has a complete data line that is the terminal marker
IsMarkerLine(line) == IsDataLine(line) /\ Slice(Trim(line), 6) = DoneMarker

HasMarker(bytes) == SelectSeq(Front(Split(Decode(<<>>, bytes).text)), IsMarkerLine) # <<>>

\* C25: once the relay has read the terminal marker it yields no chunk of a
\* later data line, makes no further read and has released the lock; and
\* the lock is released on every way out of the read loop (done, the marker,
\* cancellation, a failed read, the consumer leaving)
C25_MarkerEndsRelay ==
    /\ IsPrefix(yielded, WellFormedChunks(Consumed))
    /\ spc = "read" => ~HasMarker(Consumed)
    /\ streamExit = "marker" =>
         /\ spc = "done" /\ HasMarker(Consumed)
         /\ yielded = WellFormedChunks(Consumed)
    /\ readerLocked <=> spc \in {"read", "yielded"}
    /\ readerLocked <=> streamExit = ""

\* the marker was read with a well-formed data line after it in the same
\* read and more bytes still to come: no chunk, the lock released
C25_Witness ==
    /\ streamExit = "marker" /\ ~readerLocked
    /\ unread # <<>>
    /\ yielded = <<>>
    /\ LET dataLines == SelectSeq(Front(Split(Decode(<<>>, Consumed).text)), IsDataLine)
       IN  Len(dataLines) = 2 /\ JSONParses(Slice(Trim(dataLines[2]), 6))

\* C26: for every valid request the temperature and max_tokens sent upstream
\* are the client's values when the client supplied them (a temperature of 0
\* included), and 0.7 and 4000 when the field is absent
C26_SuppliedValuesForwarded ==
    \A r \in BagToSet(req) :
      r.pc \in {"fetch", "stream_fetch", "stream_read"} =>
        /\ r.request.temperature =
             IF r.body.temperature = Undefined THEN Num(70) ELSE r.body.temperature
        /\ r.request.max_tokens =
             IF r.body.max_tokens = Undefined THEN Num(4000 * Scale) ELSE r.body.max_tokens

\* C28: mapToExternalModelId is idempotent: mapping an id that has been
\* mapped already gives the same id again (the gateway maps the model id and
\* the service maps the result once more before it goes upstream)
C28_MapIdempotent ==
    [][(mapOps = <<"external">> /\ mapOps' = <<"external", "external">>) =>
         mapped' = mapped]_vars

\* a key of the table has been mapped twice
C28_Witness ==
    /\ mapOps = <<"external", "external">>
    /\ modelId.s \in DOMAIN MODEL_MAP
    /\ mapped = Id(MODEL_MAP[modelId.s])

\* C29: in the chat page, whenever a request is in flight and has not been
\* stopped, the abortController state holds that request's controller, so
\* that Stop reaches the request in flight
C29_StopReachesRequestInFlight ==
    \A i \in DOMAIN calls :
      (calls[i].pc # "ended" /\ ~calls[i].aborted) => storedController = i

\* handleSendMessage of call i ends in this step
Ends(i) == i \in DOMAIN calls /\ calls[i].pc # "ended" /\ calls'[i].pc = "ended"

\* C30: in the chat page, when a handleSendMessage that started a request
\* ends (the request having succeeded, failed or been cancelled), isLoading
\* and isTyping are false, abortController is null, and no assistant message
\* of it is left with isStreaming true
C30_SendEndsClean ==
    [][\A i \in 1..MaxClientSends :
         Ends(i) =>
           /\ ~isLoading' /\ ~isTyping' /\ storedController' = 0
           /\ \A j \in DOMAIN clientMessages' :
                (clientMessages'[j].kind = "assistant" /\ clientMessages'[j].of = i) =>
                  ~clientMessages'[j].isStreaming]_vars

=============================================================================
